---- MODULE Spec2Model ----
(***************************************************************************)
(* Tegra USB PHY / EHCI link power state machine of the N1 board kernel    *)
(* (CONFIG_MACH_N1, CONFIG_USB_EHCI_ONOFF_FEATURE and CONFIG_PM set).      *)
(*                                                                         *)
(*   arch/arm/mach-tegra/usb_phy.c    PHY layer (pad counter, open, ...)   *)
(*   drivers/usb/host/ehci-tegra.c    host controller layer                *)
(*                                                                         *)
(* Each subsystem has its own specification over its own group of          *)
(* variables; the other groups stay at their initial value.                *)
(***************************************************************************)
EXTENDS Integers, Sequences, FiniteSets, TLC

\* ------------------------------------------------------------------ bounds
\* UTMI phy handles sharing the pad block (the board has instances 0 and 2).
NumPhys == 2
\* Public power calls one phy handle may issue in the unconstrained pad model.
MaxCalls == 2

Phys == 1..NumPhys

\* -------------------------------------------------------------- variables
VARIABLES
    \* --- usb_phy.c: shared UTMI pad block
    utmip_pad_count,   \* static int utmip_pad_count
    utmip_pad_lock,    \* holder of utmip_pad_lock, 0 when free
    bias_pd,           \* UTMIP_OTGPD|UTMIP_BIASPD of UTMIP_BIAS_CFG0 (TRUE: powered down)
    pad_clk,           \* enable count of the "utmip-pad" clock
    utmi_regs,         \* per phy: the register fields utmi power on/off write
    ppc,               \* per phy: position inside tegra_usb_phy_power_on/off
    pval,              \* per phy: the value of utmip_pad_count it read
    pad_ret,           \* per phy: last return value of utmip_pad_power_off
    phy_ret,           \* per phy: what the last public power call returned
    calls,             \* per phy: public power calls issued
    pop,               \* per phy: the public call under way or last made
    phase,             \* paired scenario: "on", "off"
    on_done,           \* paired scenario: phys whose power-on has returned
    off_done,          \* paired scenario: phys whose power-off has returned
    bias_log,          \* history of writes to the bias power bits
    \* --- usb_phy.c: tegra_usb_phy_open
    open_in,           \* arguments and environment of the last open()
    open_out,          \* what that open() returned and left behind
    close_out,         \* what tegra_usb_phy_close of that handle left behind
    \* --- ehci-tegra.c: tegra_ehci_probe
    probe_in,          \* the platform device probed and what the probe meets
    probe_out,         \* what that probe returned and left behind
    \* --- ehci-tegra.c: one probed controller, its root port and its phy
    tegra_phy,         \* tegra->phy: instance and interface type
    ehci_lock,         \* holder of ehci->lock, "free" when free
    portsc,            \* the bits of port_status[0] the driver reads and writes
    hs_discon_disable, \* UTMIP_HS_DISCON_DISABLE of UTMIP_TX_CFG0
    tegra,             \* struct tegra_ehci_hcd: the link state fields
    shutdown,          \* static int shutdown
    hc,                \* per caller: the locals of its tegra_ehci_hub_control call
    pm_pc,             \* position of the power management thread
    rh_state,          \* the root hub: "running" or "suspended" (bus suspend)
    work_pending,      \* tegra->work is scheduled
    work_count,        \* static int work_count
    hist,              \* history: presence seen / busConnect run since the last suspend
    \* --- the polled register waits of both files
    wait,              \* the wait under way: its function, arguments and locals
    \* --- usb_phy.c: the HSIC phy (instance 1)
    uhsic,             \* the register fields uhsic_phy_power_on/off write
    board,             \* the GPIO outputs and the AHB prefetch word they write
    hsic_on,           \* the power call under way: position, locals, history
    \* --- ehci-tegra.c: system suspend and resume of one controller
    rs,                \* the controller, its clocks and port, the call under way
    \* --- usb_phy.c: the resume hooks of one phy
    hk,                \* the phy, its registers, the hook last called
    \* --- usb_phy.c: the bus verbs (connect, reset, idle, presence) of one phy
    bus,               \* the phy, its registers and GPIOs, the call under way
    \* --- ehci-tegra.c: the power profile of one controller
    pw,                \* its flags, clocks and phy power, the call last made
    \* --- usb_phy.c: tegra_usb_phy_power_on of one phy, step by step
    pon,               \* the phy, the steps performed, the return value
    \* --- gpio_keys.c: the buttons of one device and their sysfs attributes
    gk,                \* per button: disabled flag and interrupt disable depth
    \* --- ehci-tegra.c: the bounce buffer of one transfer
    dma                \* the transfer descriptor, its buffers, the call last made

padVars == <<utmip_pad_count, utmip_pad_lock, bias_pd, pad_clk, utmi_regs, ppc,
             pval, pad_ret, phy_ret, calls, pop, phase, on_done, off_done, bias_log>>

openVars == <<open_in, open_out, close_out>>

probeVars == <<probe_in, probe_out>>

hubVars == <<tegra_phy, ehci_lock, portsc, hs_discon_disable, tegra, shutdown, hc,
             pm_pc, rh_state, work_pending, work_count, hist>>

waitVars == <<wait>>

hsicVars == <<uhsic, board, hsic_on>>

resumeVars == <<rs>>

hookVars == <<hk>>

busVars == <<bus>>

powerVars == <<pw>>

onVars == <<pon>>

keysVars == <<gk>>

dmaVars == <<dma>>

vars == <<padVars, openVars, probeVars, hubVars, waitVars, hsicVars, resumeVars,
          hookVars, busVars, powerVars,
    onVars, keysVars, dmaVars>>

\* what the actions of one group leave alone: the other groups
padOthers == <<openVars, probeVars, hubVars, waitVars, hsicVars, resumeVars, hookVars, busVars,
    powerVars,
    onVars, keysVars, dmaVars>>
openOthers == <<padVars, probeVars, hubVars, waitVars, hsicVars, resumeVars, hookVars, busVars,
    powerVars,
    onVars, keysVars, dmaVars>>
probeOthers == <<padVars, openVars, hubVars, waitVars, hsicVars, resumeVars, hookVars, busVars,
    powerVars,
    onVars, keysVars, dmaVars>>
hubOthers == <<padVars, openVars, probeVars, waitVars, hsicVars, resumeVars, hookVars, busVars,
    powerVars,
    onVars, keysVars, dmaVars>>
waitOthers == <<padVars, openVars, probeVars, hubVars, hsicVars, resumeVars, hookVars, busVars,
    powerVars,
    onVars, keysVars, dmaVars>>
hsicOthers == <<padVars, openVars, probeVars, hubVars, waitVars, resumeVars, hookVars, busVars,
    powerVars,
    onVars, keysVars, dmaVars>>
resumeOthers == <<padVars, openVars, probeVars, hubVars, waitVars, hsicVars, hookVars, busVars,
    powerVars,
    onVars, keysVars, dmaVars>>
hookOthers == <<padVars, openVars, probeVars, hubVars, waitVars, hsicVars, resumeVars,
               busVars, powerVars,
    onVars, keysVars, dmaVars>>
busOthers == <<padVars, openVars, probeVars, hubVars, waitVars, hsicVars, resumeVars,
              hookVars, powerVars,
    onVars, keysVars, dmaVars>>
powerOthers == <<padVars, openVars, probeVars, hubVars, waitVars, hsicVars, resumeVars,
                hookVars, busVars,
    onVars, keysVars, dmaVars>>

onOthers == <<padVars, openVars, probeVars, hubVars, waitVars, hsicVars, resumeVars,
             hookVars, busVars, powerVars, keysVars, dmaVars>>
keysOthers == <<padVars, openVars, probeVars, hubVars, waitVars, hsicVars, resumeVars,
               hookVars, busVars, powerVars, onVars, dmaVars>>
dmaOthers == <<padVars, openVars, probeVars, hubVars, waitVars, hsicVars, resumeVars,
              hookVars, busVars, powerVars, onVars, keysVars>>

\* ==================================================================
\*  usb_phy.c: the shared UTMI pad block
\* ==================================================================

\* Register fields of one UTMI phy as the hardware leaves them out of reset:
\* transceiver forced into power down, phy in reset, phy clock off.
UtmiRegsReset ==
    [UTMIP_RESET |-> TRUE, FORCE_PD |-> TRUE, FORCE_PDDISC |-> TRUE,
     PD_CHRG |-> TRUE, PHY_CLK |-> FALSE]

PadInit ==
    /\ utmip_pad_count = 0
    /\ utmip_pad_lock = 0
    /\ bias_pd = TRUE
    /\ pad_clk = 0
    /\ utmi_regs = [p \in Phys |-> UtmiRegsReset]
    /\ ppc = [p \in Phys |-> "idle"]
    /\ pval = [p \in Phys |-> 0]
    /\ pad_ret = [p \in Phys |-> "0"]
    /\ phy_ret = [p \in Phys |-> "none"]
    /\ calls = [p \in Phys |-> 0]
    /\ pop = [p \in Phys |-> "none"]
    /\ phase = "on"
    /\ on_done = {}
    /\ off_done = {}
    /\ bias_log = <<>>

\* spin_lock_irqsave(&utmip_pad_lock): the lock can be taken when it is free.
PadLockFreeNoExclusion == TRUE
PadLockFree == utmip_pad_lock = 0

\* The test that guards the power-up write: utmip_pad_count++ == 0.
FirstUserOffByOne(old) == old = 1
FirstUser(old) == old = 0

\* The test that guards the power-down write: --utmip_pad_count == 0.
LastUserAlways(new) == TRUE
LastUser(new) == new = 0

Goto(p, l) == ppc' = [ppc EXCEPT ![p] = l]

\* tegra_usb_phy_power_on -> utmi_phy_power_on, up to the call of
\* utmip_pad_power_on: the phy is put in reset and its timing programmed.
BeginOn(p) ==
    /\ ppc[p] = "idle"
    /\ utmi_regs' = [utmi_regs EXCEPT ![p].UTMIP_RESET = TRUE]
    /\ calls' = [calls EXCEPT ![p] = @ + 1]
    /\ phy_ret' = [phy_ret EXCEPT ![p] = "none"]
    /\ pop' = [pop EXCEPT ![p] = "on"]
    /\ Goto(p, "on_clk")
    /\ UNCHANGED <<padOthers, utmip_pad_count, utmip_pad_lock, bias_pd, pad_clk, pval,
                   pad_ret, bias_log>>

\* utmip_pad_power_on: clk_enable(phy->pad_clk)
PadOnClkEnable(p) ==
    /\ ppc[p] = "on_clk"
    /\ pad_clk' = pad_clk + 1
    /\ Goto(p, "on_lock")
    /\ UNCHANGED <<padOthers, utmip_pad_count, utmip_pad_lock, bias_pd, utmi_regs, pval,
                   pad_ret, phy_ret, calls, pop, phase, on_done, off_done, bias_log>>

\* utmip_pad_power_on: spin_lock_irqsave(&utmip_pad_lock, flags)
PadOnLock(p) ==
    /\ ppc[p] = "on_lock"
    /\ PadLockFree
    /\ utmip_pad_lock' = p
    /\ Goto(p, "on_read")
    /\ UNCHANGED <<padOthers, utmip_pad_count, bias_pd, pad_clk, utmi_regs, pval,
                   pad_ret, phy_ret, calls, pop, phase, on_done, off_done, bias_log>>

\* utmip_pad_count++ : the read of the old value
PadOnRead(p) ==
    /\ ppc[p] = "on_read"
    /\ pval' = [pval EXCEPT ![p] = utmip_pad_count]
    /\ Goto(p, "on_write")
    /\ UNCHANGED <<padOthers, utmip_pad_count, utmip_pad_lock, bias_pd, pad_clk, utmi_regs,
                   pad_ret, phy_ret, calls, pop, phase, on_done, off_done, bias_log>>

\* utmip_pad_count++ : the write of old + 1, and the test of the old value
PadOnWrite(p) ==
    /\ ppc[p] = "on_write"
    /\ utmip_pad_count' = pval[p] + 1
    /\ IF FirstUser(pval[p]) THEN Goto(p, "on_bias") ELSE Goto(p, "on_unlock")
    /\ UNCHANGED <<padOthers, utmip_pad_lock, bias_pd, pad_clk, utmi_regs, pval,
                   pad_ret, phy_ret, calls, pop, phase, on_done, off_done, bias_log>>

\* val &= ~(UTMIP_OTGPD | UTMIP_BIASPD); writel(val, base + UTMIP_BIAS_CFG0)
PadOnBias(p) ==
    /\ ppc[p] = "on_bias"
    /\ bias_pd' = FALSE
    /\ bias_log' = Append(bias_log,
                          [op |-> "up", phy |-> p, from |-> pval[p],
                           to |-> utmip_pad_count, locked |-> utmip_pad_lock = p])
    /\ Goto(p, "on_unlock")
    /\ UNCHANGED <<padOthers, utmip_pad_count, utmip_pad_lock, pad_clk, utmi_regs, pval,
                   pad_ret, phy_ret, calls, pop, phase, on_done, off_done>>

\* spin_unlock_irqrestore(&utmip_pad_lock, flags)
PadOnUnlock(p) ==
    /\ ppc[p] = "on_unlock"
    /\ utmip_pad_lock' = IF utmip_pad_lock = p THEN 0 ELSE utmip_pad_lock
    /\ pval' = [pval EXCEPT ![p] = 0]
    /\ Goto(p, "on_clkdis")
    /\ UNCHANGED <<padOthers, utmip_pad_count, bias_pd, pad_clk, utmi_regs,
                   pad_ret, phy_ret, calls, pop, phase, on_done, off_done, bias_log>>

\* clk_disable(phy->pad_clk); utmip_pad_power_on returns
PadOnClkDisable(p) ==
    /\ ppc[p] = "on_clkdis"
    /\ pad_clk' = pad_clk - 1
    /\ Goto(p, "on_tail")
    /\ UNCHANGED <<padOthers, utmip_pad_count, utmip_pad_lock, bias_pd, utmi_regs, pval,
                   pad_ret, phy_ret, calls, pop, phase, on_done, off_done, bias_log>>

\* utmi_phy_power_on after the pad: transceiver power downs cleared, charger
\* detection powered, reset released, phy clock enabled; returns 0.
EndOn(p) ==
    /\ ppc[p] = "on_tail"
    /\ utmi_regs' = [utmi_regs EXCEPT ![p] =
                       [UTMIP_RESET |-> FALSE, FORCE_PD |-> FALSE,
                        FORCE_PDDISC |-> FALSE, PD_CHRG |-> FALSE,
                        PHY_CLK |-> TRUE]]
    /\ phy_ret' = [phy_ret EXCEPT ![p] = "0"]
    /\ on_done' = on_done \cup {p}
    /\ Goto(p, "idle")
    /\ UNCHANGED <<padOthers, utmip_pad_count, utmip_pad_lock, bias_pd, pad_clk, pval,
                   pad_ret, calls, pop, phase, off_done, bias_log>>

\* tegra_usb_phy_power_off -> utmi_phy_power_off, up to the call of
\* utmip_pad_power_off: phy clock disabled, phy in reset, transceiver and
\* charger detection powered down.
BeginOff(p) ==
    /\ ppc[p] = "idle"
    /\ utmi_regs' = [utmi_regs EXCEPT ![p] =
                       [UTMIP_RESET |-> TRUE, FORCE_PD |-> TRUE,
                        FORCE_PDDISC |-> TRUE, PD_CHRG |-> TRUE,
                        PHY_CLK |-> FALSE]]
    /\ calls' = [calls EXCEPT ![p] = @ + 1]
    /\ phy_ret' = [phy_ret EXCEPT ![p] = "none"]
    /\ pop' = [pop EXCEPT ![p] = "off"]
    /\ pad_ret' = [pad_ret EXCEPT ![p] = "0"]
    /\ Goto(p, "off_check")
    /\ UNCHANGED <<padOthers, utmip_pad_count, utmip_pad_lock, bias_pd, pad_clk, pval,
                   bias_log>>

\* utmip_pad_power_off: if (!utmip_pad_count) return -EINVAL;  (lock not held)
PadOffCheck(p) ==
    /\ ppc[p] = "off_check"
    /\ IF utmip_pad_count = 0
          THEN /\ pad_ret' = [pad_ret EXCEPT ![p] = "-EINVAL"]
               /\ Goto(p, "off_ret")
          ELSE /\ pad_ret' = pad_ret
               /\ Goto(p, "off_clk")
    /\ UNCHANGED <<padOthers, utmip_pad_count, utmip_pad_lock, bias_pd, pad_clk, utmi_regs,
                   pval, phy_ret, calls, pop, phase, on_done, off_done, bias_log>>

\* clk_enable(phy->pad_clk)
PadOffClkEnable(p) ==
    /\ ppc[p] = "off_clk"
    /\ pad_clk' = pad_clk + 1
    /\ Goto(p, "off_lock")
    /\ UNCHANGED <<padOthers, utmip_pad_count, utmip_pad_lock, bias_pd, utmi_regs, pval,
                   pad_ret, phy_ret, calls, pop, phase, on_done, off_done, bias_log>>

\* spin_lock_irqsave(&utmip_pad_lock, flags)
PadOffLock(p) ==
    /\ ppc[p] = "off_lock"
    /\ PadLockFree
    /\ utmip_pad_lock' = p
    /\ Goto(p, "off_read")
    /\ UNCHANGED <<padOthers, utmip_pad_count, bias_pd, pad_clk, utmi_regs, pval,
                   pad_ret, phy_ret, calls, pop, phase, on_done, off_done, bias_log>>

\* --utmip_pad_count : the read
PadOffRead(p) ==
    /\ ppc[p] = "off_read"
    /\ pval' = [pval EXCEPT ![p] = utmip_pad_count]
    /\ Goto(p, "off_write")
    /\ UNCHANGED <<padOthers, utmip_pad_count, utmip_pad_lock, bias_pd, pad_clk, utmi_regs,
                   pad_ret, phy_ret, calls, pop, phase, on_done, off_done, bias_log>>

\* --utmip_pad_count : the write of old - 1, and the test of the new value
PadOffWrite(p) ==
    /\ ppc[p] = "off_write"
    /\ utmip_pad_count' = pval[p] - 1
    /\ IF LastUser(pval[p] - 1) THEN Goto(p, "off_bias") ELSE Goto(p, "off_unlock")
    /\ UNCHANGED <<padOthers, utmip_pad_lock, bias_pd, pad_clk, utmi_regs, pval,
                   pad_ret, phy_ret, calls, pop, phase, on_done, off_done, bias_log>>

\* val |= UTMIP_OTGPD | UTMIP_BIASPD; writel(val, base + UTMIP_BIAS_CFG0)
PadOffBias(p) ==
    /\ ppc[p] = "off_bias"
    /\ bias_pd' = TRUE
    /\ bias_log' = Append(bias_log,
                          [op |-> "down", phy |-> p, from |-> pval[p],
                           to |-> utmip_pad_count, locked |-> utmip_pad_lock = p])
    /\ Goto(p, "off_unlock")
    /\ UNCHANGED <<padOthers, utmip_pad_count, utmip_pad_lock, pad_clk, utmi_regs, pval,
                   pad_ret, phy_ret, calls, pop, phase, on_done, off_done>>

\* spin_unlock_irqrestore(&utmip_pad_lock, flags)
PadOffUnlock(p) ==
    /\ ppc[p] = "off_unlock"
    /\ utmip_pad_lock' = IF utmip_pad_lock = p THEN 0 ELSE utmip_pad_lock
    /\ pval' = [pval EXCEPT ![p] = 0]
    /\ Goto(p, "off_clkdis")
    /\ UNCHANGED <<padOthers, utmip_pad_count, bias_pd, pad_clk, utmi_regs,
                   pad_ret, phy_ret, calls, pop, phase, on_done, off_done, bias_log>>

\* clk_disable(phy->pad_clk); return 0
PadOffClkDisable(p) ==
    /\ ppc[p] = "off_clkdis"
    /\ pad_clk' = pad_clk - 1
    /\ pad_ret' = [pad_ret EXCEPT ![p] = "0"]
    /\ Goto(p, "off_ret")
    /\ UNCHANGED <<padOthers, utmip_pad_count, utmip_pad_lock, bias_pd, utmi_regs, pval,
                   phy_ret, calls, pop, phase, on_done, off_done, bias_log>>

\* What utmi_phy_power_off and tegra_usb_phy_power_off hand to their caller:
\* both are void, the int utmip_pad_power_off returned is dropped.
PowerOffResultPropagated(r) == IF r = "0" THEN "0" ELSE "AlreadyOff"
PowerOffResult(r) == "void"

\* utmi_phy_power_off returns; tegra_usb_phy_power_off returns
EndOff(p) ==
    /\ ppc[p] = "off_ret"
    /\ phy_ret' = [phy_ret EXCEPT ![p] = PowerOffResult(pad_ret[p])]
    /\ off_done' = off_done \cup {p}
    /\ Goto(p, "idle")
    /\ UNCHANGED <<padOthers, utmip_pad_count, utmip_pad_lock, bias_pd, pad_clk, utmi_regs,
                   pval, pad_ret, calls, pop, phase, on_done, bias_log>>

\* The steps of a power call that is under way.
PadStep(p) ==
    \/ PadOnClkEnable(p) \/ PadOnLock(p) \/ PadOnRead(p) \/ PadOnWrite(p)
    \/ PadOnBias(p) \/ PadOnUnlock(p) \/ PadOnClkDisable(p) \/ EndOn(p)
    \/ PadOffCheck(p) \/ PadOffClkEnable(p) \/ PadOffLock(p) \/ PadOffRead(p)
    \/ PadOffWrite(p) \/ PadOffBias(p) \/ PadOffUnlock(p) \/ PadOffClkDisable(p)
    \/ EndOff(p)

\* --- callers: any phy handle may call power on or power off at any time
FreePowerOn(p) ==
    /\ calls[p] < MaxCalls
    /\ BeginOn(p)
    /\ UNCHANGED <<phase, on_done, off_done>>

FreePowerOff(p) ==
    /\ calls[p] < MaxCalls
    /\ BeginOff(p)
    /\ UNCHANGED <<phase, on_done, off_done>>

PadNext == \E p \in Phys : FreePowerOn(p) \/ FreePowerOff(p) \/ PadStep(p)

\* --- callers: N concurrent power-ons, then the N matching power-offs
PairedPowerOn(p) ==
    /\ phase = "on"
    /\ calls[p] = 0
    /\ BeginOn(p)
    /\ UNCHANGED <<phase, on_done, off_done>>

\* every power-on that was started has returned: the power-offs may begin
PairedSwitch ==
    /\ phase = "on"
    /\ on_done # {}
    /\ \A p \in Phys : ppc[p] = "idle"
    /\ phase' = "off"
    /\ UNCHANGED <<padOthers, utmip_pad_count, utmip_pad_lock, bias_pd, pad_clk, utmi_regs,
                   ppc, pval, pad_ret, phy_ret, calls, pop, on_done, off_done, bias_log>>

PairedPowerOff(p) ==
    /\ phase = "off"
    /\ p \in on_done
    /\ calls[p] = 1
    /\ BeginOff(p)
    /\ UNCHANGED <<phase, on_done, off_done>>

PairedNext ==
    \/ \E p \in Phys : PairedPowerOn(p) \/ PairedPowerOff(p) \/ PadStep(p)
    \/ PairedSwitch


\* ------------------------------------------------------------------
\*  Claims about the pad block
\* ------------------------------------------------------------------

BiasUps == {i \in 1..Len(bias_log) : bias_log[i].op = "up"}
BiasDowns == {i \in 1..Len(bias_log) : bias_log[i].op = "down"}

\* the paired scenario has run to its end: every power-on has been matched
PairedFinished ==
    /\ phase = "off"
    /\ off_done = on_done
    /\ \A p \in Phys : ppc[p] = "idle"

\* C1: N concurrent UTMI power-ons on distinct phys followed by the N
\* power-offs in any order: the bias block is powered up exactly once, by the
\* power-on that moves utmip_pad_count from 0 to 1 (and is up as soon as one
\* power-on has returned), powered down exactly once, by the power-off that
\* moves the count from 1 to 0, and the count is 0 at the end.
C1_PairedBiasOnce ==
    /\ \A i \in BiasUps : bias_log[i].from = 0 /\ bias_log[i].to = 1
    /\ \A i \in BiasDowns : bias_log[i].from = 1 /\ bias_log[i].to = 0
    /\ Cardinality(BiasUps) <= 1
    /\ Cardinality(BiasDowns) <= 1
    /\ (phase = "on" => BiasDowns = {})
    /\ (on_done # {} => Cardinality(BiasUps) = 1)
    /\ (phase = "on" /\ on_done # {} => ~bias_pd)
    /\ (phase = "on" /\ (\A p \in Phys : ppc[p] = "idle")
           => utmip_pad_count = Cardinality(on_done))
    /\ (PairedFinished =>
           /\ Len(bias_log) = 2
           /\ bias_log[1].op = "up" /\ bias_log[2].op = "down"
           /\ bias_pd
           /\ utmip_pad_count = 0)

\* C1 witness: every phy has powered on, concurrently, and powered off again
C1_Witness ==
    /\ PairedFinished
    /\ on_done = Phys
    /\ NumPhys >= 2
    /\ Len(bias_log) = 2

\* C2: utmip_pad_count is never negative, whatever power calls the phy
\* handles issue and however they interleave (unmatched power-offs included).
C2_PadCountNeverNegative == utmip_pad_count >= 0

\* C3: a power-off that finds the pad counter at 0 reports AlreadyOff to the
\* caller of the public entry point, and (no other phy having made a call)
\* leaves the counter at 0 and the bias block powered down as it was.
C3_AlreadyOffReported ==
    \A p \in Phys :
        (ppc[p] = "idle" /\ pop[p] = "off" /\ pad_ret[p] = "-EINVAL")
        => /\ phy_ret[p] = "AlreadyOff"
           /\ ((\A q \in Phys \ {p} : calls[q] = 0)
                  => utmip_pad_count = 0 /\ bias_pd)

\* ==================================================================
\*  usb_phy.c: tegra_usb_phy_open
\* ==================================================================

\* struct tegra_xtal_freq tegra_freq_table[] (UTMI, ULPI)
tegra_freq_table ==
    << [row |-> "tegra_freq_table[0]", freq |-> 12000000, enable_delay |-> 2, stable_count |-> 47,
        active_delay |-> 4, xtal_freq_count |-> 118, debounce |-> 30000],
       [row |-> "tegra_freq_table[1]", freq |-> 13000000, enable_delay |-> 2, stable_count |-> 51,
        active_delay |-> 5, xtal_freq_count |-> 127, debounce |-> 32500],
       [row |-> "tegra_freq_table[2]", freq |-> 19200000, enable_delay |-> 3, stable_count |-> 75,
        active_delay |-> 6, xtal_freq_count |-> 187, debounce |-> 48000],
       [row |-> "tegra_freq_table[3]", freq |-> 26000000, enable_delay |-> 4, stable_count |-> 102,
        active_delay |-> 9, xtal_freq_count |-> 254, debounce |-> 65000] >>

\* struct tegra_xtal_freq tegra_uhsic_freq_table[] (HSIC)
tegra_uhsic_freq_table ==
    << [row |-> "tegra_uhsic_freq_table[0]", freq |-> 12000000, enable_delay |-> 2, stable_count |-> 47,
        active_delay |-> 0, xtal_freq_count |-> 458, debounce |-> 0],
       [row |-> "tegra_uhsic_freq_table[1]", freq |-> 13000000, enable_delay |-> 2, stable_count |-> 51,
        active_delay |-> 0, xtal_freq_count |-> 496, debounce |-> 0],
       [row |-> "tegra_uhsic_freq_table[2]", freq |-> 19200000, enable_delay |-> 3, stable_count |-> 75,
        active_delay |-> 0, xtal_freq_count |-> 733, debounce |-> 0],
       [row |-> "tegra_uhsic_freq_table[3]", freq |-> 26000000, enable_delay |-> 4, stable_count |-> 102,
        active_delay |-> 0, xtal_freq_count |-> 992, debounce |-> 0] >>

\* struct tegra_utmip_config utmip_default[]: entries [0] and [2] are
\* initialised, entry [1] is the zero-filled gap between them.
utmip_default ==
    [i \in 0..2 |->
        IF i = 0 THEN [kind |-> "utmip", hssync_start_delay |-> 9, idle_wait_delay |-> 17,
                       elastic_limit |-> 16, term_range_adj |-> 6,
                       xcvr_setup |-> 11, xcvr_lsfslew |-> 1, xcvr_lsrslew |-> 1]
        ELSE IF i = 2 THEN [kind |-> "utmip", hssync_start_delay |-> 9, idle_wait_delay |-> 17,
                       elastic_limit |-> 16, term_range_adj |-> 6,
                       xcvr_setup |-> 9, xcvr_lsfslew |-> 2, xcvr_lsrslew |-> 2]
        ELSE [kind |-> "utmip", hssync_start_delay |-> 0, idle_wait_delay |-> 0,
              elastic_limit |-> 0, term_range_adj |-> 0,
              xcvr_setup |-> 0, xcvr_lsfslew |-> 0, xcvr_lsrslew |-> 0]]

\* phy->config = &utmip_default[instance]
DefaultConfigOfInstanceZero(instance) == utmip_default[0]
DefaultConfig(instance) == utmip_default[instance]

\* static inline bool phy_is_ulpi(phy): return (phy->instance == 1)
phy_is_ulpi(instance) == instance = 1

\* The loop over the table: the first row whose freq equals parent_rate is
\* stored in phy->freq; with no such row phy->freq keeps the value it had.
FreqLookupFirstRow(table, parent_rate, before) == table[1]
FreqLookup(table, parent_rate, before) ==
    IF \E i \in 1..Len(table) : table[i].freq = parent_rate
       THEN table[CHOOSE i \in 1..Len(table) :
                     /\ table[i].freq = parent_rate
                     /\ \A j \in 1..(i - 1) : table[j].freq # parent_rate]
       ELSE before

\* pointers that point nowhere: a NULL config, a NULL or never written freq
\* field, the ERR_PTR open() returns
NullConfig == [kind |-> "NULL"]
NullFreq == [row |-> "NULL"]
GarbageFreq == [row |-> "garbage"]
NullPhy == [null |-> TRUE]

\* err0: kfree(phy); return ERR_PTR(err)
OpenErr0(err, why, log, held) ==
    [ret |-> err, why |-> why, phy |-> NullPhy,
     log |-> log \o <<"kfree phy">>, held |-> held \ {"phy"}]

\* err1: clk_disable(phy->pll_u); clk_put(phy->pll_u); then err0
OpenErr1ReleasesAll(err, why, log, held) ==
    OpenErr0(err, why, log \o <<"clk_disable pll_u", "clk_put pll_u">>, {"phy"})

OpenErr1(err, why, log, held) ==
    OpenErr0(err, why, log \o <<"clk_disable pll_u", "clk_put pll_u">>,
             held \ {"pll_u", "pll_u enabled"})

\* open() from the vbus interrupt request to its return
OpenIrq(in, phy, log, held) ==
    IF in.instance = 0 /\ in.vbus_irq
       THEN IF in.fail = "request_irq"
               THEN OpenErr1("-EBUSY", "RequestFailed",
                             log \o <<"request_threaded_irq fails">>, held)
               ELSE [ret |-> "0", why |-> "ok", phy |-> phy,
                     log |-> log \o <<"request_threaded_irq">>,
                     held |-> held \cup {"vbus_irq"}]
       ELSE [ret |-> "0", why |-> "ok", phy |-> phy, log |-> log, held |-> held]

\* utmip_pad_open, and open()'s test of its result
OpenPad(in, phy, log, held) ==
    IF in.fail = "clk_get utmip-pad"
       THEN OpenErr1("-ENOENT", "RequestFailed",
                     log \o <<"clk_get utmip-pad fails">>, held)
       ELSE IF in.instance = 0
               THEN OpenIrq(in, phy, log \o <<"clk_get utmip-pad">>,
                            held \cup {"pad_clk"})
               ELSE IF in.fail = "ioremap"
                       THEN OpenErr1("-ENOMEM", "RequestFailed",
                                     log \o <<"clk_get utmip-pad", "ioremap fails",
                                              "clk_put utmip-pad">>, held)
                       ELSE OpenIrq(in, phy,
                                    log \o <<"clk_get utmip-pad", "ioremap">>,
                                    held \cup {"pad_clk", "pad_regs"})

\* open(): the transceiver specific acquisitions
OpenKind(in, phy, log, held) ==
    IF phy_is_ulpi(in.instance)
       THEN IF in.config.inf_type = "TEGRA_USB_LINK_ULPI"
               THEN IF in.fail = "clk_get ulpi"
                       THEN OpenErr1("-ENXIO", "RequestFailed",
                                     log \o <<"clk_get ulpi fails">>, held)
                       ELSE OpenIrq(in, phy,
                                    log \o <<"clk_get ulpi", "gpio_request reset",
                                             "otg_ulpi_create">>,
                                    held \cup {"ulpi_clk", "reset_gpio", "ulpi"})
               ELSE OpenIrq(in, phy, log, held)
       ELSE OpenPad(in, phy, log, held)

\* open(): parent rate read, calibration row looked up and tested
OpenFreq(in, phy, log, held) ==
    LET hsic == phy_is_ulpi(in.instance) /\ in.config.inf_type = "TEGRA_USB_UHSIC"
        table == IF hsic THEN tegra_uhsic_freq_table ELSE tegra_freq_table
        freq == FreqLookup(table, in.parent_rate, phy.freq)
        phy1 == [phy EXCEPT !.freq = freq, !.hsic = hsic]
    IN  IF freq.row = "NULL"
           THEN OpenErr1("-EINVAL", "UnsupportedClockRate", log, held)
           ELSE OpenKind(in, phy1, log, held)

\* open(): pll_u acquired and enabled
OpenPll(in, phy, log, held) ==
    IF in.fail = "clk_get pll_u"
       THEN OpenErr0("-ENOENT", "RequestFailed",
                     log \o <<"clk_get pll_u fails">>, held)
       ELSE OpenFreq(in, phy, log \o <<"clk_get pll_u", "clk_enable pll_u">>,
                     held \cup {"pll_u", "pll_u enabled"})

\* struct tegra_usb_phy *tegra_usb_phy_open(instance, regs, config, phy_mode).
\* `in` holds the arguments and what the call meets: parent_rate (the rate
\* of pll_u's parent), kmalloc_freq (the content of the freq field of the
\* block kmalloc returned, which open() never initialises), vbus_irq
\* (usb_phy_data[0].vbus_irq set) and fail (the acquisition that fails).
tegra_usb_phy_open(in) ==
    IF in.fail = "kmalloc"
       THEN [ret |-> "-ENOMEM", why |-> "RequestFailed", phy |-> NullPhy,
             log |-> <<"kmalloc fails">>, held |-> {}]
       ELSE LET phy == [null |-> FALSE, instance |-> in.instance, config |-> in.config,
                        mode |-> in.mode, freq |-> in.kmalloc_freq,
                        hsic |-> FALSE]
                log == <<"kmalloc">>
                held == {"phy"}
            IN  IF in.config = NullConfig
                   THEN IF phy_is_ulpi(in.instance)
                           THEN OpenErr0("-EINVAL", "ConfigMissing", log, held)
                           ELSE OpenPll(in,
                                        [phy EXCEPT !.config = DefaultConfig(in.instance)],
                                        log, held)
                   ELSE OpenPll(in, phy, log, held)

\* --- the callers' side: what open() can be given
Instances == 0..2

\* rates of the clock feeding pll_u: the four of the tables and two others
ParentRates == {12000000, 13000000, 19200000, 26000000, 16800000, 24000000}

\* a board's UTMI configuration (struct tegra_utmip_config)
BoardUtmipConfig ==
    [kind |-> "utmip", hssync_start_delay |-> 0, idle_wait_delay |-> 17, elastic_limit |-> 16,
     term_range_adj |-> 6, xcvr_setup |-> 15, xcvr_lsfslew |-> 2,
     xcvr_lsrslew |-> 2]

\* struct tegra_ulpi_config, by its inf_type
UlpiConfigs ==
    {[kind |-> "ulpi", inf_type |-> t] :
        t \in {"TEGRA_USB_LINK_ULPI", "TEGRA_USB_UHSIC", "TEGRA_USB_NULL_ULPI"}}

ConfigsOf(instance) ==
    {NullConfig} \cup (IF phy_is_ulpi(instance) THEN UlpiConfigs ELSE {BoardUtmipConfig})

OpenFailures ==
    {"none", "kmalloc", "clk_get pll_u", "clk_get ulpi", "clk_get utmip-pad",
     "ioremap", "request_irq"}

\* a freq field never written holds NULL or whatever the block held before
KmallocContents == {NullFreq, GarbageFreq}

OpenInputs ==
    {[called |-> TRUE, instance |-> i, config |-> c, mode |-> m, parent_rate |-> r,
      kmalloc_freq |-> g, vbus_irq |-> v, fail |-> f] :
        i \in Instances, c \in UNION {ConfigsOf(j) : j \in Instances},
        m \in {"HOST", "DEVICE"}, r \in ParentRates, g \in KmallocContents,
        v \in BOOLEAN, f \in OpenFailures}

NoCall == [called |-> FALSE]

OpenIdle == open_in = NoCall /\ open_out = NoCall /\ close_out = NoCall

\* a caller opens a phy
OpenCall ==
    /\ ~open_in.called
    /\ \E in \in OpenInputs :
        /\ in.config \in ConfigsOf(in.instance)
        /\ open_in' = in
        /\ open_out' = tegra_usb_phy_open(in)
        /\ UNCHANGED <<close_out, openOthers>>

\* utmip_pad_close: the extra register window of instance 2 unmapped, the
\* pad clock put
utmip_pad_close(instance, c) ==
    LET u == IF instance # 0
                THEN [c EXCEPT !.log = Append(@, "iounmap"), !.held = @ \ {"pad_regs"}]
                ELSE c
    IN  [u EXCEPT !.log = Append(@, "clk_put utmip-pad"), !.held = @ \ {"pad_clk"}]

\* if (phy->instance == 0 && usb_phy_data[0].vbus_irq) free_irq(...)
CloseFreesIrq(instance, vbus_irq) == instance = 0 /\ vbus_irq

\* void tegra_usb_phy_close(phy), on what open() returned and left held
tegra_usb_phy_close(in, out) ==
    LET c0 == [called |-> TRUE, log |-> <<>>, held |-> out.held]
        c1 == IF phy_is_ulpi(out.phy.instance)
                 THEN IF out.phy.config.inf_type = "TEGRA_USB_LINK_ULPI"
                         THEN [c0 EXCEPT !.log = Append(@, "clk_put ulpi"),
                                         !.held = @ \ {"ulpi_clk"}]
                         ELSE c0
                 ELSE utmip_pad_close(out.phy.instance, c0)
        c2 == [c1 EXCEPT !.log = @ \o <<"clk_disable pll_u", "clk_put pll_u">>,
                         !.held = @ \ {"pll_u", "pll_u enabled"}]
        c3 == IF CloseFreesIrq(out.phy.instance, in.vbus_irq)
                 THEN [c2 EXCEPT !.log = Append(@, "free_irq"),
                                 !.held = @ \ {"vbus_irq"}]
                 ELSE c2
    IN  [c3 EXCEPT !.log = Append(@, "kfree phy"), !.held = @ \ {"phy"}]

\* the caller closes the handle a successful open() gave it
CloseCall ==
    /\ open_in.called
    /\ open_out.ret = "0"
    /\ ~close_out.called
    /\ close_out' = tegra_usb_phy_close(open_in, open_out)
    /\ UNCHANGED <<open_in, open_out, openOthers>>

\* ------------------------------------------------------------------
\*  Claims about open()
\* ------------------------------------------------------------------

TableRates(table) == {table[i].freq : i \in 1..Len(table)}

\* the calibration table of the phy's kind
TableOf(in) ==
    IF phy_is_ulpi(in.instance) /\ in.config.kind = "ulpi"
          /\ in.config.inf_type = "TEGRA_USB_UHSIC"
       THEN tegra_uhsic_freq_table ELSE tegra_freq_table

\* open() was called with a configuration and met no failing acquisition
OpenUnhindered ==
    /\ open_in.called
    /\ open_in.fail = "none"
    /\ ~(open_in.config = NullConfig /\ phy_is_ulpi(open_in.instance))

\* C4: for every parent rate in the calibration table of the phy's kind
\* open() succeeds and the handle's row is the row of that rate; for every
\* other rate open() fails with UnsupportedClockRate and returns no handle.
C4_OpenSelectsExactRow ==
    OpenUnhindered =>
        IF open_in.parent_rate \in TableRates(TableOf(open_in))
           THEN /\ open_out.ret = "0"
                /\ ~open_out.phy.null
                /\ open_out.phy.freq \in
                      {TableOf(open_in)[i] : i \in 1..Len(TableOf(open_in))}
                /\ open_out.phy.freq.freq = open_in.parent_rate
           ELSE /\ open_out.why = "UnsupportedClockRate"
                /\ open_out.phy.null

\* C5: with no configuration (and memory for the handle), open() of
\* instance 1 fails with ConfigMissing before any clock is acquired; open()
\* of a UTMI instance never fails for the missing configuration, uses
\* utmip_default[instance], and succeeds when the rate is supported and
\* every acquisition succeeds.
C5_OpenWithoutConfig ==
    (open_in.called /\ open_in.config = NullConfig /\ open_in.fail # "kmalloc") =>
        IF open_in.instance = 1
           THEN /\ open_out.why = "ConfigMissing"
                /\ open_out.ret = "-EINVAL"
                /\ open_out.phy.null
                /\ open_out.held = {}
                /\ \A i \in 1..Len(open_out.log) :
                      open_out.log[i] \in {"kmalloc", "kfree phy"}
           ELSE /\ open_out.why # "ConfigMissing"
                /\ (open_out.ret = "0" =>
                       open_out.phy.config = utmip_default[open_in.instance])
                /\ (open_in.fail = "none"
                    /\ open_in.parent_rate \in TableRates(tegra_freq_table)
                       => open_out.ret = "0" /\ ~open_out.phy.null)

\* C5 witness: instance 2 opened without a configuration
C5_Witness ==
    /\ open_in.called
    /\ open_in.config = NullConfig
    /\ open_in.instance = 2
    /\ open_out.ret = "0"
    /\ open_out.phy.config = utmip_default[2]


\* ==================================================================
\*  ehci-tegra.c: tegra_ehci_probe
\* ==================================================================

\* the clocks probe acquires: tegra->clk, ->clk_min, ->sclk_clk, ->emc_clk
ProbeClocks == {"usb2", "usb2min", "sclk", "emc"}

\* probe's bookkeeping: the calls made so far, each clock's enable count
\* and the resources held
ProbeStart ==
    [log |-> <<>>, on |-> [c \in ProbeClocks |-> 0], held |-> {}]

Called(st, call) == [st EXCEPT !.log = Append(@, call)]
Got(st, call, res) == [st EXCEPT !.log = Append(@, call), !.held = @ \cup {res}]
Put(st, call, res) == [st EXCEPT !.log = Append(@, call), !.held = @ \ {res}]
clk_enable(st, c) ==
    [st EXCEPT !.log = Append(@, <<"clk_enable", c>>), !.on[c] = @ + 1]
clk_disable(st, c) ==
    [st EXCEPT !.log = Append(@, <<"clk_disable", c>>), !.on[c] = @ - 1]
clk_put(st, c) == Put(st, <<"clk_put", c>>, c)

\* probe's return: err and what it leaves behind
ProbeReturn(err, st) ==
    [called |-> TRUE, ret |-> err, log |-> st.log, on |-> st.on, held |-> st.held]

\* the cleanup labels of probe, last to first
FailHcd(err, st) == ProbeReturn(err, Put(st, <<"kfree", "tegra">>, "tegra"))
FailClk(err, st) == FailHcd(err, Put(st, <<"usb_put_hcd", "hcd">>, "hcd"))
FailClkMin(err, st) == FailClk(err, clk_put(st, "usb2"))
FailClken(err, st) == FailClkMin(err, clk_put(st, "usb2min"))
FailSclkClk(err, st) == FailClken(err, clk_disable(st, "usb2"))
FailEmcClk(err, st) == FailSclkClk(err, clk_put(clk_disable(st, "sclk"), "sclk"))
FailIo(err, st) == FailEmcClk(err, clk_put(clk_disable(st, "emc"), "emc"))
FailPhy(err, st) == FailIo(err, Put(st, <<"iounmap", "regs">>, "regs"))
Fail(err, st) == FailPhy(err, Put(st, <<"tegra_usb_phy_close", "phy">>, "phy"))
FailNotify(err, st) == Fail(err, Called(st, <<"host_notify_dev_unregister", "ndev">>))

\* probe from usb_add_hcd to its return
ProbeAddHcd(in, st) ==
    IF in.fail = "usb_add_hcd"
       THEN FailNotify("-ENOMEM", Called(st, <<"usb_add_hcd", "fails">>))
       ELSE ProbeReturn("0", Got(st, <<"usb_add_hcd", "hcd">>, "hcd added"))

\* probe after the phy is powered: interrupt line, link state, notifier
ProbeIrq(in, st) ==
    IF in.fail = "platform_get_irq"
       THEN Fail("-ENODEV", Called(st, <<"platform_get_irq", "fails">>))
       ELSE LET st1 == Called(st, <<"device_ready_for_reset", "false">>)
            IN  IF in.host_notify
                   THEN IF in.fail = "host_notify_dev_register"
                           THEN Fail("-EINVAL",
                                     Called(st1, <<"host_notify_dev_register", "fails">>))
                           ELSE ProbeAddHcd(in,
                                   Called(st1, <<"host_notify_dev_register", "ndev">>))
                   ELSE ProbeAddHcd(in, st1)

\* what happens when open() has failed: err = -ENXIO; goto fail_phy
ProbeOpenFailedPowersOn(in, st) ==
    Fail("-ENXIO", Called(st, <<"tegra_usb_phy_power_on", "phy">>))
ProbeOpenFailed(in, st) == FailPhy("-ENXIO", st)

\* probe: the phy opened, then powered on
ProbePhy(in, st) ==
    LET opened == tegra_usb_phy_open(in.open)
        st1 == Called(st, <<"tegra_usb_phy_open", opened.ret>>)
    IN  IF opened.ret # "0"
           THEN ProbeOpenFailed(in, st1)
           ELSE LET st2 == [st1 EXCEPT !.held = @ \cup {"phy"}]
                IN  IF in.fail = "tegra_usb_phy_power_on"
                       THEN Fail("-ETIMEDOUT",
                                 Called(st2, <<"tegra_usb_phy_power_on", "fails">>))
                       ELSE ProbeIrq(in,
                               Called(st2, <<"tegra_usb_phy_power_on", "phy">>))

\* probe: the register window
ProbeIo(in, st) ==
    IF in.fail = "platform_get_resource"
       THEN FailIo("-ENXIO", Called(st, <<"platform_get_resource", "fails">>))
       ELSE IF in.fail = "ioremap"
               THEN FailIo("-ENOMEM", Called(st, <<"ioremap", "fails">>))
               ELSE ProbePhy(in, Got(st, <<"ioremap", "regs">>, "regs"))

\* probe: sclk and emc acquired, rated by the instance, and enabled
ProbeBusClocks(in, st) ==
    IF in.fail = "clk_get sclk"
       THEN FailSclkClk("-ENOENT", Called(st, <<"clk_get", "sclk fails">>))
       ELSE LET st1 == clk_enable(
                          Called(Got(st, <<"clk_get", "sclk">>, "sclk"),
                                 <<"clk_set_rate sclk",
                                   IF in.instance = 0 THEN "240000000" ELSE "80000000">>),
                          "sclk")
            IN  IF in.fail = "clk_get emc"
                   THEN FailEmcClk("-ENOENT", Called(st1, <<"clk_get", "emc fails">>))
                   ELSE ProbeIo(in,
                           clk_enable(
                              Called(Got(st1, <<"clk_get", "emc">>, "emc"),
                                     <<"clk_set_rate emc",
                                       IF in.instance = 0 THEN "600000000" ELSE "150000000">>),
                              "emc"))

\* probe: the core clock acquired and enabled, the minimum clock acquired
ProbeCoreClocks(in, st) ==
    IF in.fail = "clk_get usb2"
       THEN FailClk("-ENOENT", Called(st, <<"clk_get", "usb2 fails">>))
       ELSE LET st1 == Got(st, <<"clk_get", "usb2">>, "usb2")
            IN  IF in.fail = "clk_enable usb2"
                   THEN FailClken("-EINVAL", Called(st1, <<"clk_enable", "usb2 fails">>))
                   ELSE IF in.fail = "clk_get usb2min"
                           THEN FailClkMin("-ENOENT",
                                           Called(clk_enable(st1, "usb2"),
                                                  <<"clk_get", "usb2min fails">>))
                           ELSE ProbeBusClocks(in,
                                   Got(clk_enable(st1, "usb2"),
                                       <<"clk_get", "usb2min">>, "usb2min"))

\* static int tegra_ehci_probe(struct platform_device *pdev).  `in` holds
\* pdev->id (instance), whether platform data is present, pdata->host_notify,
\* the arguments and environment of the open() it makes (in.open) and the
\* step of probe that fails (in.fail).
tegra_ehci_probe(in) ==
    IF ~in.pdata
       THEN ProbeReturn("-EINVAL", ProbeStart)
       ELSE IF in.fail = "kzalloc"
               THEN ProbeReturn("-ENOMEM", ProbeStart)
               ELSE LET st == Got(ProbeStart, <<"kzalloc", "tegra">>, "tegra")
                    IN  IF in.fail = "usb_create_hcd"
                           THEN FailHcd("-ENOMEM",
                                        Called(st, <<"usb_create_hcd", "fails">>))
                           ELSE ProbeCoreClocks(in,
                                   Got(st, <<"usb_create_hcd", "hcd">>, "hcd"))

\* --- the driver core's side: what probe can be given
ProbeFailures ==
    {"none", "kzalloc", "usb_create_hcd", "clk_get usb2", "clk_enable usb2",
     "clk_get usb2min", "clk_get sclk", "clk_get emc", "platform_get_resource",
     "ioremap", "tegra_usb_phy_power_on", "platform_get_irq",
     "host_notify_dev_register", "usb_add_hcd"}

ProbeInputs ==
    {[called |-> TRUE, instance |-> o.instance, pdata |-> pd, host_notify |-> hn,
      open |-> o, fail |-> f] :
        o \in {x \in OpenInputs : x.mode = "HOST" /\ x.config \in ConfigsOf(x.instance)},
        pd \in BOOLEAN, hn \in BOOLEAN, f \in ProbeFailures}

ProbeIdle == probe_in = NoCall /\ probe_out = NoCall

\* the driver core probes a controller
ProbeCall ==
    /\ ~probe_in.called
    /\ \E in \in ProbeInputs :
        /\ in.fail # "none" => in.open.fail = "none"
        /\ probe_in' = in
        /\ probe_out' = tegra_ehci_probe(in)
        /\ UNCHANGED probeOthers

\* ------------------------------------------------------------------
\*  Claims about probe
\* ------------------------------------------------------------------

\* probe made the call `call` (its i-th)
ProbeMade(call) == \E i \in 1..Len(probe_out.log) : probe_out.log[i] = call

\* probe called open() and open() returned an error
OpenFailedInProbe ==
    /\ probe_in.called
    /\ \E i \in 1..Len(probe_out.log) :
          /\ probe_out.log[i][1] = "tegra_usb_phy_open"
          /\ probe_out.log[i][2] # "0"

\* C6: when open() fails during probe, probe returns an error, never calls
\* tegra_usb_phy_power_on, and the core, sclk and emc clocks it enabled
\* are disabled again when it returns.
C6_ProbeAbortsOnOpenFailure ==
    OpenFailedInProbe =>
        /\ probe_out.ret = "-ENXIO"
        /\ \A i \in 1..Len(probe_out.log) :
              probe_out.log[i][1] # "tegra_usb_phy_power_on"
        /\ \A c \in {"usb2", "sclk", "emc"} :
              /\ ProbeMade(<<"clk_enable", c>>)
              /\ ProbeMade(<<"clk_disable", c>>)
              /\ probe_out.on[c] = 0

\* C6 witness: open() refuses the parent rate in the middle of a probe
C6_Witness ==
    /\ OpenFailedInProbe
    /\ probe_in.open.fail = "none"
    /\ probe_in.open.kmalloc_freq = NullFreq
    /\ probe_in.open.parent_rate = 24000000
    /\ ProbeMade(<<"tegra_usb_phy_open", "-EINVAL">>)
    /\ ProbeMade(<<"clk_disable", "emc">>)
    /\ probe_out.ret = "-ENXIO"

\* ==================================================================
\*  ehci-tegra.c: root hub control, suspend/resume, reconnection worker
\* ==================================================================

\* unsigned retry_connect = 20
RetryConnect == 20
\* if (work_count++ > 40)
WorkCountLimit == 40

\* the controllers of the board: a UTMI one and the HSIC one (instance 1)
Controllers ==
    {[instance |-> 0, inf_type |-> "UTMI"],
     [instance |-> 1, inf_type |-> "TEGRA_USB_UHSIC"]}

\* hsic = (config->inf_type == TEGRA_USB_UHSIC), for instance 1 only
IsHsic == tegra_phy.instance = 1 /\ tegra_phy.inf_type = "TEGRA_USB_UHSIC"

\* the threads that send requests to the root hub
Callers == {"khubd", "usbfs"}

NoReq == [typeReq |-> "none", wValue |-> "none", wIndex |-> 0]

\* the requests tegra_ehci_hub_control tells apart (the root hub has one port)
HubRequests ==
    {[typeReq |-> tr, wValue |-> wv, wIndex |-> 1] :
        tr \in {"ClearPortFeature", "SetPortFeature"},
        wv \in {"USB_PORT_FEAT_ENABLE", "USB_PORT_FEAT_SUSPEND",
                "USB_PORT_FEAT_RESET", "USB_PORT_FEAT_POWER"}}
    \cup {[typeReq |-> "GetPortStatus", wValue |-> "none", wIndex |-> 1]}
    \cup {[typeReq |-> "SetPortFeature", wValue |-> wv, wIndex |-> 0] :
            wv \in {"USB_PORT_FEAT_RESET", "USB_PORT_FEAT_POWER"}}

\* the requests about the port's suspend, resume and enable state
PortRequests ==
    {r \in HubRequests :
        r.typeReq = "GetPortStatus"
        \/ r.wValue \in {"USB_PORT_FEAT_SUSPEND", "USB_PORT_FEAT_ENABLE"}}

\* the requests about the port's power and reset
LinkRequests ==
    {r \in HubRequests :
        r.wValue \in {"USB_PORT_FEAT_POWER", "USB_PORT_FEAT_RESET"}}

\* int ports = HCS_N_PORTS(ehci->hcs_params)
HCS_N_PORTS == 1

\* the locals of one call, before the call
HcIdle ==
    [pc |-> "idle", req |-> NoReq, retry_connect |-> RetryConnect, retval |-> "0",
     idles |-> 0, polls |-> 0, polled_true |-> FALSE, did_reset |-> FALSE,
     ready_by_other |-> FALSE]

\* the state probe and the first enumeration leave behind
HubInit ==
    /\ tegra_phy \in Controllers
    /\ ehci_lock = "free"
    /\ portsc = [pe |-> FALSE, suspend |-> FALSE, resume |-> FALSE, reset |-> FALSE,
                 owner |-> FALSE, power |-> TRUE]
    /\ hs_discon_disable = FALSE
    /\ tegra \in {[port_resuming |-> 0, device_ready_for_reset |-> FALSE,
                   host_resumed |-> 1, bus_is_power_down |-> 0, hub_suspend_req |-> 0,
                   require_power_down_on_bus_suspend |-> b] : b \in BOOLEAN}
    /\ shutdown = 0
    /\ hc = [t \in Callers |-> HcIdle]
    /\ pm_pc = "on"
    /\ rh_state = "running"
    /\ work_pending = FALSE
    /\ work_count = 0
    /\ hist = [connected_seen |-> FALSE, power_connected |-> FALSE]

\* device_ready_for_reset is set by somebody else than the callers in `except`:
\* every call under way notes it
NotedByCalls(except) ==
    [t \in Callers |->
        IF t \in except \/ hc[t].pc = "idle" THEN hc[t]
        ELSE [hc[t] EXCEPT !.ready_by_other = TRUE]]

\* tegra_usb_phy_preresume / tegra_usb_phy_postresume: the disconnect
\* detection bit is written on a UTMI phy only
PreresumeBit(old) == IF phy_is_ulpi(tegra_phy.instance) THEN old ELSE TRUE
PostresumeBit(old) == IF phy_is_ulpi(tegra_phy.instance) THEN old ELSE FALSE

\* spin_lock_irqsave(&ehci->lock) / spin_unlock_irqrestore(&ehci->lock)
EhciLockNeverWaits == TRUE

EhciLockFree == ehci_lock = "free"

\* --- tegra_ehci_hub_control -----------------------------------------

\* usbcore hands a root hub request to the driver
HcIssueOf(t, requests) ==
    /\ hc[t].pc = "idle"
    /\ \E r \in requests : hc' = [hc EXCEPT ![t] = [HcIdle EXCEPT !.pc = "enter", !.req = r]]
    /\ UNCHANGED <<tegra_phy, ehci_lock, portsc, hs_discon_disable, tegra, shutdown,
                   pm_pc, rh_state, work_pending, work_count, hist, hubOthers>>

HcIssuePort(t) == HcIssueOf(t, PortRequests)
HcIssueLink(t) == HcIssueOf(t, LinkRequests)

\* the call takes ehci->lock and finds its request
HcAt(t, typeReq, wValue) ==
    /\ hc[t].pc = "enter"
    /\ EhciLockFree
    /\ hc[t].req.typeReq = typeReq
    /\ hc[t].req.wValue = wValue

\* ClearPortFeature ENABLE: PORT_PE cleared; goto done
HcClearEnable(t) ==
    /\ HcAt(t, "ClearPortFeature", "USB_PORT_FEAT_ENABLE")
    /\ ehci_lock' = t
    /\ portsc' = [portsc EXCEPT !.pe = FALSE]
    /\ hc' = [hc EXCEPT ![t].pc = "done"]
    /\ UNCHANGED <<tegra_phy, hs_discon_disable, tegra, shutdown,
                   pm_pc, rh_state, work_pending, work_count, hist, hubOthers>>

\* if (tegra->port_resuming && !(temp & PORT_SUSPEND))
ResumeFinishedWhileSuspended(port_resuming, suspend) == port_resuming # 0

ResumeFinished(port_resuming, suspend) == port_resuming # 0 /\ ~suspend

\* GetPortStatus: a finished resume is noticed (port_resuming set and
\* PORT_SUSPEND clear); on to the unlock before ehci_hub_control
HcGetPortStatus(t) ==
    /\ HcAt(t, "GetPortStatus", "none")
    /\ IF ResumeFinished(tegra.port_resuming, portsc.suspend)
          THEN /\ tegra' = [tegra EXCEPT !.port_resuming = 0]
               /\ hs_discon_disable' = PostresumeBit(hs_discon_disable)
          ELSE UNCHANGED <<tegra, hs_discon_disable>>
    /\ ehci_lock' = t
    /\ hc' = [hc EXCEPT ![t].pc = "unlock_generic"]
    /\ UNCHANGED <<tegra_phy, portsc, shutdown,
                   pm_pc, rh_state, work_pending, work_count, hist, hubOthers>>

\* SetPortFeature SUSPEND: -EPIPE on a disabled or resetting port, else
\* PORT_SUSPEND written and hub_suspend_req set; goto done
HcSetSuspend(t) ==
    /\ HcAt(t, "SetPortFeature", "USB_PORT_FEAT_SUSPEND")
    /\ ehci_lock' = t
    /\ IF ~portsc.pe \/ portsc.reset
          THEN /\ hc' = [hc EXCEPT ![t].pc = "done", ![t].retval = "-EPIPE"]
               /\ UNCHANGED <<portsc, tegra>>
          ELSE /\ portsc' = [portsc EXCEPT !.suspend = TRUE]
               /\ tegra' = [tegra EXCEPT !.hub_suspend_req = 1]
               /\ hc' = [hc EXCEPT ![t].pc = "done"]
    /\ UNCHANGED <<tegra_phy, hs_discon_disable, shutdown,
                   pm_pc, rh_state, work_pending, work_count, hist, hubOthers>>

\* ClearPortFeature SUSPEND: -EPIPE on a disabled or resetting port, nothing
\* on a port not suspended; else preresume, PORT_RESUME written, and the
\* lock dropped for msleep(20)
HcClearSuspend(t) ==
    /\ HcAt(t, "ClearPortFeature", "USB_PORT_FEAT_SUSPEND")
    /\ IF portsc.reset \/ ~portsc.pe
          THEN /\ ehci_lock' = t
               /\ hc' = [hc EXCEPT ![t].pc = "done", ![t].retval = "-EPIPE"]
               /\ UNCHANGED <<portsc, hs_discon_disable>>
          ELSE IF ~portsc.suspend
                  THEN /\ ehci_lock' = t
                       /\ hc' = [hc EXCEPT ![t].pc = "done"]
                       /\ UNCHANGED <<portsc, hs_discon_disable>>
                  ELSE /\ hs_discon_disable' = PreresumeBit(hs_discon_disable)
                       /\ portsc' = [portsc EXCEPT !.resume = TRUE]
                       /\ ehci_lock' = "free"
                       /\ hc' = [hc EXCEPT ![t].pc = "resume_sleep"]
    /\ UNCHANGED <<tegra_phy, tegra, shutdown,
                   pm_pc, rh_state, work_pending, work_count, hist, hubOthers>>

\* after msleep(20): the lock again, the two handshakes on PORT_RESUME and
\* PORT_SUSPEND (a timeout is only logged), port_resuming = 1; goto done
HcResumeWake(t) ==
    /\ hc[t].pc = "resume_sleep"
    /\ EhciLockFree
    /\ ehci_lock' = t
    /\ tegra' = [tegra EXCEPT !.port_resuming = 1]
    /\ hc' = [hc EXCEPT ![t].pc = "done"]
    /\ UNCHANGED <<tegra_phy, portsc, hs_discon_disable, shutdown,
                   pm_pc, rh_state, work_pending, work_count, hist, hubOthers>>

\* the requests handled under "Handle port reset here"
HsicPortRequest(r) ==
    /\ IsHsic
    /\ r.typeReq = "SetPortFeature"
    /\ r.wValue \in {"USB_PORT_FEAT_RESET", "USB_PORT_FEAT_POWER"}

\* if (!wIndex || wIndex > ports) retval = -EPIPE;  if (temp & PORT_OWNER) goto done
HcHsicRefused(t) ==
    /\ hc[t].pc = "enter"
    /\ EhciLockFree
    /\ HsicPortRequest(hc[t].req)
    /\ \/ /\ hc[t].req.wIndex = 0 \/ hc[t].req.wIndex > HCS_N_PORTS
          /\ hc' = [hc EXCEPT ![t].pc = "done", ![t].retval = "-EPIPE"]
       \/ /\ ~(hc[t].req.wIndex = 0 \/ hc[t].req.wIndex > HCS_N_PORTS)
          /\ portsc.owner
          /\ hc' = [hc EXCEPT ![t].pc = "done"]
       \/ /\ ~(hc[t].req.wIndex = 0 \/ hc[t].req.wIndex > HCS_N_PORTS)
          /\ ~portsc.owner
          /\ hc[t].req.wValue = "USB_PORT_FEAT_RESET"
          /\ portsc.resume
          /\ hc' = [hc EXCEPT ![t].pc = "done", ![t].retval = "-EPIPE"]
    /\ ehci_lock' = t
    /\ UNCHANGED <<tegra_phy, portsc, hs_discon_disable, tegra, shutdown,
                   pm_pc, rh_state, work_pending, work_count, hist, hubOthers>>

HsicPortAccepted(t, wValue) ==
    /\ HcAt(t, "SetPortFeature", wValue)
    /\ IsHsic
    /\ ~(hc[t].req.wIndex = 0 \/ hc[t].req.wIndex > HCS_N_PORTS)
    /\ ~portsc.owner

\* SetPortFeature RESET on the HSIC port: PORT_PE cleared, then the
\* presence poll unless the device is known to be ready
HcHsicReset(t) ==
    /\ HsicPortAccepted(t, "USB_PORT_FEAT_RESET")
    /\ ~portsc.resume
    /\ ehci_lock' = t
    /\ portsc' = [portsc EXCEPT !.pe = FALSE]
    /\ hc' = [hc EXCEPT ![t].pc = IF ~tegra.device_ready_for_reset
                                     THEN "bus_idle" ELSE "reset_test"]
    /\ UNCHANGED <<tegra_phy, hs_discon_disable, tegra, shutdown,
                   pm_pc, rh_state, work_pending, work_count, hist, hubOthers>>

\* tegra_usb_phy_bus_idle(tegra->phy)
HcBusIdle(t) ==
    /\ hc[t].pc = "bus_idle"
    /\ hc' = [hc EXCEPT ![t].pc = "poll", ![t].idles = @ + 1]
    /\ UNCHANGED <<tegra_phy, ehci_lock, portsc, hs_discon_disable, tegra, shutdown,
                   pm_pc, rh_state, work_pending, work_count, hist, hubOthers>>

\* what a presence poll that returned `connected` makes of it
PollSaysConnectedAlways(connected) == TRUE
PollSaysConnected(connected) == connected

\* while (retry_connect): one poll of tegra_usb_phy_is_device_connected; a
\* true poll sets device_ready_for_reset and leaves the loop, a false one
\* drops the lock for msleep(50)
HcPollReturns(t, connected) ==
    /\ hc[t].pc = "poll"
    /\ hc[t].retry_connect # 0
    /\ IF PollSaysConnected(connected)
          THEN /\ tegra' = [tegra EXCEPT !.device_ready_for_reset = TRUE]
               /\ hc' = [NotedByCalls({t}) EXCEPT
                            ![t].pc = "reset_test", ![t].polls = @ + 1,
                            ![t].polled_true = connected]
               /\ UNCHANGED ehci_lock
          ELSE /\ ehci_lock' = "free"
               /\ hc' = [hc EXCEPT ![t].pc = "poll_sleep", ![t].polls = @ + 1]
               /\ UNCHANGED tegra
    /\ hist' = [hist EXCEPT !.connected_seen = @ \/ connected]
    /\ UNCHANGED <<tegra_phy, portsc, hs_discon_disable, shutdown,
                   pm_pc, rh_state, work_pending, work_count, hubOthers>>

\* after msleep(50): the lock again, retry_connect--; the loop ends at 0
HcPollWake(t) ==
    /\ hc[t].pc = "poll_sleep"
    /\ EhciLockFree
    /\ ehci_lock' = t
    /\ hc' = [hc EXCEPT ![t].retry_connect = @ - 1,
                        ![t].pc = IF hc[t].retry_connect - 1 = 0
                                     THEN "reset_test" ELSE "poll"]
    /\ UNCHANGED <<tegra_phy, portsc, hs_discon_disable, tegra, shutdown,
                   pm_pc, rh_state, work_pending, work_count, hist, hubOthers>>

\* if (tegra->device_ready_for_reset): the condition under which the port
\* reset goes on to tegra_usb_phy_bus_reset
ResetGuardAlways(ready) == TRUE
ResetGuard(ready) == ready

\* the results tegra_usb_phy_bus_reset / tegra_usb_phy_bus_connect return in this build
BusResults == {"0", "-ENOTCONN"}

\* retval = tegra_usb_phy_bus_reset(tegra->phy), when the device is ready
HcBusReset(t) ==
    /\ hc[t].pc = "reset_test"
    /\ IF ResetGuard(tegra.device_ready_for_reset)
          THEN \E ret \in BusResults :
                  hc' = [hc EXCEPT ![t].pc = "reset_clear", ![t].retval = ret,
                                   ![t].did_reset = TRUE]
          ELSE hc' = [hc EXCEPT ![t].pc = "done"]
    /\ UNCHANGED <<tegra_phy, ehci_lock, portsc, hs_discon_disable, tegra, shutdown,
                   pm_pc, rh_state, work_pending, work_count, hist, hubOthers>>

HcPoll(t) == \E connected \in BOOLEAN : HcPollReturns(t, connected)

\* tegra->device_ready_for_reset = false, after the bus reset
HcResetClear(t) ==
    /\ hc[t].pc = "reset_clear"
    /\ tegra' = [tegra EXCEPT !.device_ready_for_reset = FALSE]
    /\ hc' = [hc EXCEPT ![t].pc = "done"]
    /\ UNCHANGED <<tegra_phy, ehci_lock, portsc, hs_discon_disable, shutdown,
                   pm_pc, rh_state, work_pending, work_count, hist, hubOthers>>

\* SetPortFeature POWER on the HSIC port: PORT_POWER written (HCS_PPC);
\* nothing more once shutdown is 1
HcHsicPower(t) ==
    /\ HsicPortAccepted(t, "USB_PORT_FEAT_POWER")
    /\ ehci_lock' = t
    /\ portsc' = [portsc EXCEPT !.power = TRUE]
    /\ hc' = [hc EXCEPT ![t].pc = IF shutdown = 1 THEN "done" ELSE "bus_connect"]
    /\ UNCHANGED <<tegra_phy, hs_discon_disable, tegra, shutdown,
                   pm_pc, rh_state, work_pending, work_count, hist, hubOthers>>

\* tegra_usb_phy_bus_connect(tegra->phy), its result dropped, then
\* tegra->device_ready_for_reset = true
HcBusConnect(t) ==
    /\ hc[t].pc = "bus_connect"
    /\ tegra' = [tegra EXCEPT !.device_ready_for_reset = TRUE]
    /\ hist' = [connected_seen |-> FALSE, power_connected |-> TRUE]
    /\ hc' = [NotedByCalls({t}) EXCEPT ![t].pc = "done"]
    /\ UNCHANGED <<tegra_phy, ehci_lock, portsc, hs_discon_disable, shutdown,
                   pm_pc, rh_state, work_pending, work_count, hubOthers>>

\* every other request: no branch taken, on to the unlock before
\* ehci_hub_control
HcOther(t) ==
    /\ hc[t].pc = "enter"
    /\ EhciLockFree
    /\ ~HsicPortRequest(hc[t].req)
    /\ hc[t].req.typeReq # "GetPortStatus"
    /\ ~(hc[t].req.wValue = "USB_PORT_FEAT_ENABLE" /\ hc[t].req.typeReq = "ClearPortFeature")
    /\ hc[t].req.wValue # "USB_PORT_FEAT_SUSPEND"
    /\ ehci_lock' = t
    /\ hc' = [hc EXCEPT ![t].pc = "unlock_generic"]
    /\ UNCHANGED <<tegra_phy, portsc, hs_discon_disable, tegra, shutdown,
                   pm_pc, rh_state, work_pending, work_count, hist, hubOthers>>

\* spin_unlock_irqrestore(&ehci->lock) before return ehci_hub_control(...)
HcUnlockGeneric(t) ==
    /\ hc[t].pc = "unlock_generic"
    /\ ehci_lock' = "free"
    /\ hc' = [hc EXCEPT ![t].pc = "generic"]
    /\ UNCHANGED <<tegra_phy, portsc, hs_discon_disable, tegra, shutdown,
                   pm_pc, rh_state, work_pending, work_count, hist, hubOthers>>

\* done: spin_unlock_irqrestore(&ehci->lock); return retval
HcDone(t) ==
    /\ hc[t].pc = "done"
    /\ ehci_lock' = "free"
    /\ hc' = [hc EXCEPT ![t] = HcIdle]
    /\ UNCHANGED <<tegra_phy, portsc, hs_discon_disable, tegra, shutdown,
                   pm_pc, rh_state, work_pending, work_count, hist, hubOthers>>

\* return ehci_hub_control(...): the generic handler, under ehci->lock; of
\* its effects the model keeps those on the port bits read above
HcGeneric(t) ==
    /\ hc[t].pc = "generic"
    /\ EhciLockFree
    /\ portsc' =
          IF hc[t].req.typeReq = "SetPortFeature" /\ hc[t].req.wValue = "USB_PORT_FEAT_RESET"
             THEN [portsc EXCEPT !.reset = TRUE, !.pe = FALSE]
          ELSE IF hc[t].req.wValue = "USB_PORT_FEAT_POWER"
             THEN [portsc EXCEPT !.power = (hc[t].req.typeReq = "SetPortFeature")]
          ELSE portsc
    /\ hc' = [hc EXCEPT ![t] = HcIdle]
    /\ UNCHANGED <<tegra_phy, ehci_lock, hs_discon_disable, tegra, shutdown,
                   pm_pc, rh_state, work_pending, work_count, hist, hubOthers>>

\* --- the controller hardware ----------------------------------------

\* the controller ends a port reset and enables the port
HwPortEnable ==
    /\ portsc.power
    /\ ~portsc.pe \/ portsc.reset
    /\ portsc' = [portsc EXCEPT !.pe = TRUE, !.reset = FALSE]
    /\ UNCHANGED <<tegra_phy, ehci_lock, hs_discon_disable, tegra, shutdown, hc,
                   pm_pc, rh_state, work_pending, work_count, hist, hubOthers>>

\* the controller times the resume signalling and clears PORT_RESUME and
\* PORT_SUSPEND by itself
HwResumeDone ==
    /\ portsc.resume
    /\ portsc' = [portsc EXCEPT !.resume = FALSE, !.suspend = FALSE]
    /\ UNCHANGED <<tegra_phy, ehci_lock, hs_discon_disable, tegra, shutdown, hc,
                   pm_pc, rh_state, work_pending, work_count, hist, hubOthers>>

\* --- power management ------------------------------------------------

\* tegra_ehci_power_down: host_resumed = 0, phy powered off; with the bus
\* powered down only clk_min is released, else hub_suspend_req is cleared
tegra_ehci_power_down(tg) ==
    IF tg.bus_is_power_down # 0
       THEN [tg EXCEPT !.host_resumed = 0]
       ELSE [tg EXCEPT !.host_resumed = 0, !.hub_suspend_req = 0]

\* tegra_ehci_power_up: clocks on, phy powered on, host_resumed = 1,
\* bus_is_power_down = 0
tegra_ehci_power_up(tg) == [tg EXCEPT !.host_resumed = 1, !.bus_is_power_down = 0]

\* if (hsic) tegra->device_ready_for_reset = false
ReadyWhenSuspendedKept(ready) == ready
ReadyWhenSuspended(ready) == FALSE

\* tegra_ehci_suspend -> tegra_usb_suspend, the part under ehci->lock: the
\* controller halted, device_ready_for_reset cleared on the HSIC controller.
\* On instance 1 nothing is done once shutdown is 1.
PmSuspend ==
    /\ pm_pc = "on"
    /\ ~(tegra_phy.instance = 1 /\ shutdown = 1)
    /\ EhciLockFree
    /\ tegra' = IF IsHsic
                   THEN [tegra EXCEPT !.device_ready_for_reset = ReadyWhenSuspended(@)]
                   ELSE tegra
    /\ hist' = [connected_seen |-> FALSE, power_connected |-> FALSE]
    /\ pm_pc' = "power_down"
    /\ UNCHANGED <<tegra_phy, ehci_lock, portsc, hs_discon_disable, shutdown, hc,
                   rh_state, work_pending, work_count, hubOthers>>

\* tegra_usb_suspend after the unlock: tegra_ehci_power_down, unless
\* shutdown was set meanwhile on instance 1
PmPowerDown ==
    /\ pm_pc = "power_down"
    /\ IF tegra_phy.instance = 1 /\ shutdown = 1
          THEN UNCHANGED tegra
          ELSE tegra' = tegra_ehci_power_down(tegra)
    /\ pm_pc' = "suspended"
    /\ UNCHANGED <<tegra_phy, ehci_lock, portsc, hs_discon_disable, shutdown, hc,
                   rh_state, work_pending, work_count, hist, hubOthers>>

\* tegra_ehci_resume -> tegra_usb_resume: tegra_ehci_power_up; the HSIC
\* controller goes straight to restart
PmResume ==
    /\ pm_pc = "suspended"
    /\ tegra' = tegra_ehci_power_up(tegra)
    /\ pm_pc' = IF IsHsic THEN "restart" ELSE "restore"
    /\ UNCHANGED <<tegra_phy, ehci_lock, portsc, hs_discon_disable, shutdown, hc,
                   rh_state, work_pending, work_count, hist, hubOthers>>

\* tegra_ehci_restart as the port sees it: the controller reset, the port
\* powered again
tegra_ehci_restart(port) ==
    [port EXCEPT !.pe = FALSE, !.suspend = FALSE, !.resume = FALSE, !.reset = FALSE,
                 !.power = TRUE]

\* tegra_usb_resume on a UTMI controller: either the port comes back
\* enabled and is put in suspend again, or a handshake times out (or the
\* port speed was unknown) and the controller is restarted
PmRestore ==
    /\ pm_pc = "restore"
    /\ \/ /\ portsc.pe
          /\ portsc' = [portsc EXCEPT !.power = TRUE, !.suspend = TRUE]
       \/ portsc' = tegra_ehci_restart(portsc)
    /\ pm_pc' = "on"
    /\ UNCHANGED <<tegra_phy, ehci_lock, hs_discon_disable, tegra, shutdown, hc,
                   rh_state, work_pending, work_count, hist, hubOthers>>

\* restart: on the HSIC controller, tegra_ehci_restart unless the port is
\* powered and enabled, then tegra_usb_phy_bus_idle
PmRestart ==
    /\ pm_pc = "restart"
    /\ portsc' = IF ~(portsc.power /\ portsc.pe) THEN tegra_ehci_restart(portsc) ELSE portsc
    /\ pm_pc' = "resume_poll"
    /\ UNCHANGED <<tegra_phy, ehci_lock, hs_discon_disable, tegra, shutdown, hc,
                   rh_state, work_pending, work_count, hist, hubOthers>>

\* if (!tegra_usb_phy_is_device_connected) schedule_delayed_work(&tegra->work)
\* else tegra->device_ready_for_reset = true; return 0
PmResumePollReturns(connected) ==
    /\ pm_pc = "resume_poll"
    /\ IF PollSaysConnected(connected)
          THEN /\ tegra' = [tegra EXCEPT !.device_ready_for_reset = TRUE]
               /\ hc' = NotedByCalls({})
               /\ UNCHANGED work_pending
          ELSE /\ work_pending' = TRUE
               /\ UNCHANGED <<tegra, hc>>
    /\ hist' = [hist EXCEPT !.connected_seen = @ \/ connected]
    /\ pm_pc' = "on"
    /\ UNCHANGED <<tegra_phy, ehci_lock, portsc, hs_discon_disable, shutdown,
                   rh_state, work_count, hubOthers>>

PmResumePoll == \E connected \in BOOLEAN : PmResumePollReturns(connected)

\* tegra_ehci_shutdown: shutdown = 1 on instance 1, power up if the
\* controller is suspended, ehci_shutdown, tegra_ehci_power_down
PmShutdown ==
    /\ pm_pc \in {"on", "suspended"}
    /\ shutdown' = IF tegra_phy.instance = 1 THEN 1 ELSE shutdown
    /\ tegra' = tegra_ehci_power_down(
                   IF tegra.host_resumed = 0 THEN tegra_ehci_power_up(tegra) ELSE tegra)
    /\ pm_pc' = "off"
    /\ UNCHANGED <<tegra_phy, ehci_lock, portsc, hs_discon_disable, hc,
                   rh_state, work_pending, work_count, hist, hubOthers>>

\* --- the reconnection worker ----------------------------------------

\* if (work_count++ > 40)
WorkGivesUpLate(count) == count > WorkCountLimit + 1

WorkGivesUp(count) == count > WorkCountLimit

\* tegra_hsic_connection_work: a true poll sets device_ready_for_reset and
\* clears work_count; a false one schedules the work again until
\* work_count has passed its limit
HsicConnectionWorkReturns(connected) ==
    /\ work_pending
    /\ IF PollSaysConnected(connected)
          THEN /\ tegra' = [tegra EXCEPT !.device_ready_for_reset = TRUE]
               /\ hc' = NotedByCalls({})
               /\ work_count' = 0
               /\ work_pending' = FALSE
          ELSE /\ work_count' = IF WorkGivesUp(work_count) THEN 0 ELSE work_count + 1
               /\ work_pending' = ~WorkGivesUp(work_count)
               /\ UNCHANGED <<tegra, hc>>
    /\ hist' = [hist EXCEPT !.connected_seen = @ \/ connected]
    /\ UNCHANGED <<tegra_phy, ehci_lock, portsc, hs_discon_disable, shutdown,
                   pm_pc, rh_state, hubOthers>>

HsicConnectionWork == \E connected \in BOOLEAN : HsicConnectionWorkReturns(connected)

\* --- bus suspend and bus resume of the root hub ------------------------

\* tegra_ehci_bus_suspend: nothing on instance 1 once shutdown is 1; else
\* ehci_bus_suspend (enabled ports suspended, or an error returned), then
\* the reduced power profile if the policy and a hub suspend request ask for it
BusSuspend ==
    /\ rh_state = "running"
    /\ pm_pc = "on"
    /\ EhciLockFree
    /\ IF tegra_phy.instance = 1 /\ shutdown = 1
          THEN /\ rh_state' = "suspended"
               /\ UNCHANGED <<portsc, tegra>>
          ELSE \/ /\ rh_state' = "running"
                  /\ UNCHANGED <<portsc, tegra>>
               \/ /\ rh_state' = "suspended"
                  /\ portsc' = [portsc EXCEPT !.suspend = @ \/ portsc.pe]
                  /\ tegra' = IF tegra.require_power_down_on_bus_suspend
                                 /\ tegra.hub_suspend_req # 0
                                 THEN [tegra EXCEPT !.hub_suspend_req = 0,
                                                    !.bus_is_power_down = 1]
                                 ELSE tegra
    /\ UNCHANGED <<tegra_phy, ehci_lock, hs_discon_disable, shutdown, hc,
                   pm_pc, work_pending, work_count, hist, hubOthers>>

\* tegra_ehci_bus_resume up to ehci_bus_resume: the full power profile
\* restored, tegra_usb_phy_preresume, port_resuming = 1 (no lock taken)
BusResume ==
    /\ rh_state = "suspended"
    /\ pm_pc = "on"
    /\ tegra' = [tegra EXCEPT
                    !.bus_is_power_down =
                        IF tegra.require_power_down_on_bus_suspend THEN 0 ELSE @,
                    !.port_resuming = 1]
    /\ hs_discon_disable' = PreresumeBit(hs_discon_disable)
    /\ rh_state' = "resuming"
    /\ UNCHANGED <<tegra_phy, ehci_lock, portsc, shutdown, hc,
                   pm_pc, work_pending, work_count, hist, hubOthers>>

\* return ehci_bus_resume(hcd): resume signalling on the suspended port
BusResumeGeneric ==
    /\ rh_state = "resuming"
    /\ EhciLockFree
    /\ portsc' = [portsc EXCEPT !.resume = @ \/ portsc.suspend]
    /\ rh_state' = "running"
    /\ UNCHANGED <<tegra_phy, ehci_lock, hs_discon_disable, tegra, shutdown, hc,
                   pm_pc, work_pending, work_count, hist, hubOthers>>

\* --- the controller at work -------------------------------------------

\* the part of tegra_ehci_hub_control the power and reset requests run through
LinkControl(t) ==
    \/ HcIssueLink(t)
    \/ HcHsicRefused(t)
    \/ HcHsicReset(t)
    \/ HcBusIdle(t)
    \/ HcPoll(t)
    \/ HcPollWake(t)
    \/ HcBusReset(t)
    \/ HcResetClear(t)
    \/ HcHsicPower(t)
    \/ HcBusConnect(t)
    \/ HcOther(t)
    \/ HcUnlockGeneric(t)
    \/ HcDone(t)
    \/ HcGeneric(t)

\* the part of tegra_ehci_hub_control the port requests run through
PortControl(t) ==
    \/ HcIssuePort(t)
    \/ HcClearEnable(t)
    \/ HcGetPortStatus(t)
    \/ HcSetSuspend(t)
    \/ HcClearSuspend(t)
    \/ HcResumeWake(t)
    \/ HcOther(t)
    \/ HcUnlockGeneric(t)
    \/ HcDone(t)
    \/ HcGeneric(t)

\* two threads sending port requests to one root hub, bus suspend and resume
PortNext ==
    \/ \E t \in Callers : PortControl(t)
    \/ HwPortEnable
    \/ HwResumeDone
    \/ BusSuspend
    \/ BusResume
    \/ BusResumeGeneric

\* khubd powering and resetting the port, with system suspend and resume,
\* shutdown and the reconnection worker
LinkNext ==
    \/ LinkControl("khubd")
    \/ HwPortEnable
    \/ PmSuspend
    \/ PmPowerDown
    \/ PmResume
    \/ PmRestore
    \/ PmRestart
    \/ PmResumePoll
    \/ PmShutdown
    \/ HsicConnectionWork

\* ------------------------------------------------------------------
\*  Claims about the HSIC link
\* ------------------------------------------------------------------

\* the step in which caller t invokes tegra_usb_phy_bus_reset
BusResetStep(t) == hc[t].pc = "reset_test" /\ hc'[t].pc = "reset_clear"

\* the presence-poll budget of caller t's port reset is used up
BudgetExhausted(t) == hc[t].retry_connect = 0

\* C7 as claimed: busReset is invoked only if isDeviceConnected has returned
\* true since the link was last powered or suspended, or the poll budget of
\* the current port reset is exhausted.
C7_BusResetOnlyAfterPresence ==
    [][\A t \in Callers :
          BusResetStep(t) => (hist.connected_seen \/ BudgetExhausted(t))]_vars

\* C7 amended: busReset is invoked only if isDeviceConnected has returned
\* true since the link was last powered or suspended, or SetPortFeature POWER
\* has run busConnect since the last suspend (which sets
\* device_ready_for_reset without a presence poll), or the poll budget of
\* the current port reset is exhausted.
C7_BusResetOnlyWhenReady ==
    [][\A t \in Callers :
          BusResetStep(t) =>
              (hist.connected_seen \/ hist.power_connected \/ BudgetExhausted(t))]_vars

\* C7 witness: busReset invoked after busConnect, no poll having returned true
C7_Witness ==
    \E t \in Callers :
        /\ hc[t].pc = "reset_clear"
        /\ hc[t].did_reset
        /\ hist.power_connected
        /\ ~hist.connected_seen

\* caller t is at the end of an HSIC port reset that went through the presence poll
ResetPolled(t) == hc[t].pc = "done" /\ hc[t].idles > 0

\* no poll is made after a poll that returned true
PollStopsAtTrue ==
    \A t \in Callers :
        hc[t].polled_true => hc[t].pc \in {"reset_test", "reset_clear", "done"}

\* C8 as claimed: a port reset that starts with the device not known to be
\* connected calls busIdle once and polls at most 20 times, stopping at the
\* first true; when all 20 polls return false busReset is still invoked
\* before the request returns.
C8_ExhaustedPollStillResets ==
    /\ PollStopsAtTrue
    /\ \A t \in Callers :
          ResetPolled(t) =>
              /\ hc[t].idles = 1
              /\ hc[t].polls <= RetryConnect
              /\ (~hc[t].polled_true /\ hc[t].polls = RetryConnect) => hc[t].did_reset

\* C8 amended: such a port reset calls busIdle once and polls at most 20
\* times, stopping at the first true; when all 20 polls return false,
\* busReset is invoked only if another operation has set
\* device_ready_for_reset during the request, and otherwise the request
\* returns 0 without invoking busReset.
C8_ExhaustedPollSkipsReset ==
    /\ PollStopsAtTrue
    /\ \A t \in Callers :
          ResetPolled(t) =>
              /\ hc[t].idles = 1
              /\ hc[t].polls <= RetryConnect
              /\ ~hc[t].polled_true =>
                    /\ hc[t].polls = RetryConnect
                    /\ hc[t].did_reset => hc[t].ready_by_other
                    /\ ~hc[t].did_reset => hc[t].retval = "0"

\* C8 witness: a port reset ends after 20 false polls, busReset not invoked
C8_Witness ==
    \E t \in Callers :
        /\ ResetPolled(t)
        /\ hc[t].polls = RetryConnect
        /\ ~hc[t].polled_true
        /\ ~hc[t].ready_by_other
        /\ ~hc[t].did_reset
        /\ hc[t].retval = "0"

\* the step is a presence poll that returned true
TruePollStep ==
    \/ \E t \in Callers : HcPollReturns(t, TRUE)
    \/ PmResumePollReturns(TRUE)
    \/ HsicConnectionWorkReturns(TRUE)

\* device_ready_for_reset changes from false to true in this step
ReadyRises == ~tegra.device_ready_for_reset /\ tegra'.device_ready_for_reset

\* C9 as claimed: device_ready_for_reset changes from false to true only in
\* a step in which isDeviceConnected has just returned true.
C9_ReadyOnlyAfterTruePoll == [][ReadyRises => TruePollStep]_vars

\* C9 amended: device_ready_for_reset changes from false to true only in a
\* step in which isDeviceConnected has just returned true, or in the step of
\* SetPortFeature POWER on the HSIC port that runs busConnect; in a port
\* reset whose first polls return false the flag is not set by the polls
\* until the true one.
C9_ReadyOnlyAfterPollOrConnect ==
    [][ReadyRises => (TruePollStep \/ \E t \in Callers : HcBusConnect(t))]_vars

\* C9 witness: polls returned false, then true, and the flag is set
C9_Witness ==
    \E t \in Callers :
        /\ hc[t].pc = "reset_test"
        /\ hc[t].polls >= 3
        /\ hc[t].polled_true
        /\ ~hc[t].ready_by_other
        /\ tegra.device_ready_for_reset

\* ------------------------------------------------------------------
\*  Claims about port resume
\* ------------------------------------------------------------------

\* the step in which caller t's ClearPortFeature SUSPEND calls preresume and
\* writes PORT_RESUME
ResumeStartStep(t) == hc[t].pc = "enter" /\ hc'[t].pc = "resume_sleep"

\* a resume is in progress when caller t's request is served: port_resuming
\* is set, or another request sleeps in its resume signalling
ResumeInProgress(t) ==
    \/ tegra.port_resuming # 0
    \/ \E u \in Callers \ {t} : hc[u].pc = "resume_sleep"

\* C10: a ClearPortFeature SUSPEND served while an earlier resume is in
\* progress does not call preresume again and does not write the resume bit
\* a second time: at most one resume handshake is in flight.
C10_SingleResumeInFlight ==
    [][\A t \in Callers : ResumeInProgress(t) => ~ResumeStartStep(t)]_vars

\* ------------------------------------------------------------------
\*  Claims about the reconnection worker
\* ------------------------------------------------------------------
\* system suspend and resume, shutdown, and the worker they schedule
WorkerNext ==
    \/ PmSuspend
    \/ PmPowerDown
    \/ PmResume
    \/ PmRestore
    \/ PmRestart
    \/ PmResumePoll
    \/ PmShutdown
    \/ HsicConnectionWork

\* C16: once scheduled, the reconnection worker eventually is no longer
\* scheduled.  A run whose presence poll returns true sets
\* device_ready_for_reset, resets work_count to 0 and does not reschedule; a
\* run whose poll returns false reschedules unless work_count has passed 40,
\* and then gives up with work_count reset to 0; work_count never passes 41.
C16_WorkerStops ==
    /\ [](work_count <= WorkCountLimit + 1)
    /\ [][HsicConnectionWorkReturns(TRUE) =>
            (tegra'.device_ready_for_reset /\ work_count' = 0 /\ ~work_pending')]_vars
    /\ [][HsicConnectionWorkReturns(FALSE) =>
            IF work_count > WorkCountLimit
               THEN work_count' = 0 /\ ~work_pending'
               ELSE work_count' = work_count + 1 /\ work_pending']_vars
    /\ (work_pending ~> ~work_pending)

C16_Witness ==
    /\ work_pending
    /\ work_count = WorkCountLimit + 1
    /\ ~tegra.device_ready_for_reset

\* ------------------------------------------------------------------
\*  Claims about the controller lock
\* ------------------------------------------------------------------
\* every request tegra_ehci_hub_control can be sent
HubControl(t) ==
    \/ HcIssueOf(t, HubRequests)
    \/ HcClearEnable(t)
    \/ HcGetPortStatus(t)
    \/ HcSetSuspend(t)
    \/ HcClearSuspend(t)
    \/ HcResumeWake(t)
    \/ HcHsicRefused(t)
    \/ HcHsicReset(t)
    \/ HcBusIdle(t)
    \/ HcPoll(t)
    \/ HcPollWake(t)
    \/ HcBusReset(t)
    \/ HcResetClear(t)
    \/ HcHsicPower(t)
    \/ HcBusConnect(t)
    \/ HcOther(t)
    \/ HcUnlockGeneric(t)
    \/ HcDone(t)
    \/ HcGeneric(t)

\* khubd sending every request to the root hub, a usbfs thread the port
\* requests
HubNext ==
    \/ HubControl("khubd")
    \/ PortControl("usbfs")
    \/ HwPortEnable
    \/ HwResumeDone

\* caller t's tegra_ehci_hub_control call takes a step
HcStep(t) == hc'[t].pc # hc[t].pc

\* the link state fields of struct tegra_ehci_hcd
LinkStateOf(tg) == <<tg.port_resuming, tg.bus_is_power_down, tg.device_ready_for_reset>>

\* the step is made by a thread that holds ehci->lock, or takes it in this
\* step: a hub control call, or the locked section of tegra_usb_suspend
WriterHoldsLock ==
    \/ \E t \in Callers :
          /\ HcStep(t)
          /\ ehci_lock = t \/ (ehci_lock = "free" /\ ehci_lock' = t)
    \/ pm_pc = "on" /\ pm_pc' = "power_down"

\* C17: every write to the link state (port_resuming, bus_is_power_down,
\* device_ready_for_reset) is made by a thread holding ehci->lock.
C17_LinkStateWrittenUnderLock ==
    [][LinkStateOf(tegra') # LinkStateOf(tegra) => WriterHoldsLock]_vars

\* C18: after controller shutdown the link state holds its initial values:
\* port_resuming = 0, bus_is_power_down = 0, device_ready_for_reset = false.
C18_ShutdownResetsLinkState ==
    pm_pc = "off" => LinkStateOf(tegra) = <<0, 0, FALSE>>

\* the positions of tegra_ehci_hub_control at which it holds ehci->lock
HcLockedPcs ==
    {"done", "unlock_generic", "bus_idle", "poll", "reset_test", "reset_clear",
     "bus_connect"}

\* msleep(20) of the resume signalling, msleep(50) of the presence poll
HcSleepPcs == {"resume_sleep", "poll_sleep"}

\* C19: in tegra_ehci_hub_control the lock is held by the caller exactly at
\* the positions between its lock and unlock calls: not during the 20 ms
\* and 50 ms sleeps, not after the return, not in the generic hub control
\* it delegates to; every step that writes the port status register or the
\* link state is made holding the lock or taking it; a sleep ends by taking
\* the lock again; and every return path releases the held lock once.
C19_LockDiscipline ==
    /\ [](\A t \in Callers : ehci_lock = t <=> hc[t].pc \in HcLockedPcs)
    /\ [][\A t \in Callers :
            (HcStep(t) /\ hc[t].pc # "generic" /\ (portsc' # portsc \/ tegra' # tegra))
               => (ehci_lock = t \/ (ehci_lock = "free" /\ hc[t].pc \in {"enter"} \cup HcSleepPcs))]_vars
    /\ [][\A t \in Callers :
            (HcStep(t) /\ hc[t].pc \in HcSleepPcs)
               => (ehci_lock = "free" /\ ehci_lock' = t)]_vars
    /\ [][\A t \in Callers :
            (HcStep(t) /\ hc[t].pc # "generic" /\ hc'[t].pc \in {"idle", "generic"})
               => (ehci_lock = t /\ ehci_lock' = "free")]_vars

C19_Witness ==
    /\ hc["khubd"].pc = "poll_sleep"
    /\ hc["usbfs"].pc = "done"
    /\ ehci_lock = "usbfs"

\* ==================================================================
\*  usb_phy.c, ehci-tegra.c: the polled register waits
\* ==================================================================
\* unsigned long timeout = 50000 (CONFIG_MACH_N1) of utmi_wait_register
UTMI_WAIT_TIMEOUT == 50000
\* unsigned long timeout = 50000 of ehci_tegra_wait_register
EHCI_WAIT_TIMEOUT == 50000
\* int usec = 250*1000 of tegra_ehci_reset
RESET_USEC == 250000

\* the register bits the waits look at; OTHER stands for every other bit
WaitRegBits == {"USB_PHY_CLK_VALID", "USBCMD_RESET", "OTHER"}

\* the calls made: (mask, result) of the clock-valid waits of
\* utmi_phy_clk_disable/enable and tegra_ehci_recover_rx_error, and the
\* controller reset
WaitCalls ==
    {[fn |-> f, mask |-> {"USB_PHY_CLK_VALID"}, result |-> r] :
        f \in {"utmi_wait_register", "ehci_tegra_wait_register"},
        r \in {{}, {"USB_PHY_CLK_VALID"}}}
    \cup {[fn |-> "tegra_ehci_reset", mask |-> {"USBCMD_RESET"}, result |-> {}]}

WaitBudget(fn) ==
    CASE fn = "utmi_wait_register" -> UTMI_WAIT_TIMEOUT
      [] fn = "ehci_tegra_wait_register" -> EHCI_WAIT_TIMEOUT
      [] fn = "tegra_ehci_reset" -> RESET_USEC

WaitIdle ==
    wait = [pc |-> "idle", fn |-> "none", mask |-> {}, result |-> {},
            timeout |-> 0, reads |-> 0, hit_at |-> 0, ret |-> "none"]

\* what the hardware shows at one read: the condition waited for holds
ConditionHolds(val, mask, result) ==
    \A b \in mask : (b \in val) <=> (b \in result)

\* the call: the budget is loaded (tegra_ehci_reset first sets the reset bit)
WaitEnter ==
    /\ wait.pc = "idle"
    /\ \E c \in WaitCalls :
          wait' = [pc |-> "loop", fn |-> c.fn, mask |-> c.mask, result |-> c.result,
                   timeout |-> WaitBudget(c.fn), reads |-> 0, hit_at |-> 0,
                   ret |-> "none"]
    /\ UNCHANGED waitOthers

\* (readl(reg) & mask) == result
WaitMatchedWholeWord(val, mask, result) == val = result

WaitMatched(val, mask, result) == (val \cap mask) = result

\* !(temp & TEGRA_USB_USBCMD_RESET)
ResetCleared(temp) == "USBCMD_RESET" \notin temp

\* while (timeout), while (usec)
WaitLoopAgain(timeout) == timeout # 0

\* one pass of the do-while of utmi_wait_register / ehci_tegra_wait_register:
\* one read; return 0 on a match; else udelay(1), timeout--, and return -1
\* when the budget is used up
WaitRead ==
    /\ wait.pc = "loop"
    /\ wait.fn # "tegra_ehci_reset"
    /\ \E val \in SUBSET WaitRegBits :
         LET hit == IF wait.hit_at = 0 /\ ConditionHolds(val, wait.mask, wait.result)
                       THEN wait.reads + 1 ELSE wait.hit_at
             w == [wait EXCEPT !.reads = @ + 1, !.hit_at = hit]
         IN IF WaitMatched(val, wait.mask, wait.result)
               THEN wait' = [w EXCEPT !.pc = "returned", !.ret = "0"]
               ELSE IF WaitLoopAgain(wait.timeout - 1)
                       THEN wait' = [w EXCEPT !.timeout = @ - 1]
                       ELSE wait' = [w EXCEPT !.timeout = @ - 1,
                                              !.pc = "returned", !.ret = "-1"]
    /\ UNCHANGED waitOthers

\* one pass of the do-while of tegra_ehci_reset: one read of USBCMD; break
\* when the reset bit has cleared; else udelay(1), usec--
ResetRead ==
    /\ wait.pc = "loop"
    /\ wait.fn = "tegra_ehci_reset"
    /\ \E temp \in SUBSET WaitRegBits :
         LET hit == IF wait.hit_at = 0 /\ ConditionHolds(temp, wait.mask, wait.result)
                       THEN wait.reads + 1 ELSE wait.hit_at
             w == [wait EXCEPT !.reads = @ + 1, !.hit_at = hit]
         IN IF ResetCleared(temp)
               THEN wait' = [w EXCEPT !.pc = "after_loop"]
               ELSE IF WaitLoopAgain(wait.timeout - 1)
                       THEN wait' = [w EXCEPT !.timeout = @ - 1]
                       ELSE wait' = [w EXCEPT !.timeout = @ - 1, !.pc = "after_loop"]
    /\ UNCHANGED waitOthers

\* if (!usec) return -ETIMEDOUT; host mode is set; return 0
ResetReturn ==
    /\ wait.pc = "after_loop"
    /\ wait' = [wait EXCEPT !.pc = "returned",
                            !.ret = IF wait.timeout = 0 THEN "-ETIMEDOUT" ELSE "0"]
    /\ UNCHANGED waitOthers

WaitNext == WaitEnter \/ WaitRead \/ ResetRead \/ ResetReturn

\* ------------------------------------------------------------------
\*  Claims about the polled waits
\* ------------------------------------------------------------------
WaitFailure(fn) == IF fn = "tegra_ehci_reset" THEN "-ETIMEDOUT" ELSE "-1"

\* C11: every polled register wait terminates within its budget: while it
\* polls, fewer reads than the budget have been made and none of them showed
\* the condition; when the condition first holds at read k the function
\* returns 0 having made exactly k reads; when it never holds the function
\* returns failure (-1, -ETIMEDOUT for tegra_ehci_reset) having made exactly
\* its budget of reads (50000, 250000 for tegra_ehci_reset).
C11_WaitsBounded ==
    /\ wait.pc = "loop" => (wait.reads < WaitBudget(wait.fn) /\ wait.hit_at = 0)
    /\ (wait.pc = "returned" /\ wait.hit_at > 0) =>
          (wait.ret = "0" /\ wait.reads = wait.hit_at
             /\ wait.hit_at <= WaitBudget(wait.fn))
    /\ (wait.pc = "returned" /\ wait.hit_at = 0) =>
          (wait.ret = WaitFailure(wait.fn) /\ wait.reads = WaitBudget(wait.fn))

C11_Witness ==
    /\ wait.pc = "returned"
    /\ wait.fn = "utmi_wait_register"
    /\ wait.hit_at = 3
    /\ wait.ret = "0"

\* ==================================================================
\*  usb_phy.c: the HSIC phy, power on and power off
\* ==================================================================
\* power cycles of the HSIC phy followed from boot
MaxCycles == 2

\* int spin = 5
HSIC_SPIN == 5

\* USB_PORTSC1_PSPD(~0) >> 26: the port speed field power-on expects
PSPD_EXPECTED == 3

RECURSIVE BitOr(_, _)
BitOr(a, b) ==
    IF a = 0 THEN b
    ELSE IF b = 0 THEN a
    ELSE (IF a % 2 = 1 \/ b % 2 = 1 THEN 1 ELSE 0) + 2 * BitOr(a \div 2, b \div 2)

\* struct tegra_uhsic_config uhsic_default
uhsic_default ==
    [sync_start_delay |-> 9, idle_wait_delay |-> 17, term_range_adj |-> 0,
     elastic_underrun_limit |-> 16, elastic_overrun_limit |-> 16]

UhsicPadsPowerDown ==
    {"UHSIC_PD_BG", "UHSIC_PD_TX", "UHSIC_PD_TRK", "UHSIC_PD_RX", "UHSIC_PD_ZI",
     "UHSIC_RPD_DATA", "UHSIC_RPD_STROBE"}

\* the register state the first power-on may meet: the pads powered down or
\* not, the phy held in reset or not, the TX fill threshold at 0x10 or not;
\* every count field 0
UhsicBootStates ==
    {[pads_cfg1 |-> pads, susp_ctrl |-> susp,
      idle_wait |-> 0, underrun_limit |-> 0, overrun_limit |-> 0,
      sync_start_dly |-> 0, misc_cfg0 |-> {}, stable_count |-> 0,
      enable_dly_count |-> 0, xtal_freq_count |-> 0,
      pts |-> 0, wake |-> {"USB_PORTSC1_WKCN"},
      txfill |-> [thres |-> th, others |-> th # 16], rtunen |-> 0] :
        pads \in {UhsicPadsPowerDown, {}},
        susp \in {{}, {"UHSIC_RESET"}},
        th \in {2, 16}}

UhsicReset ==
    [pads_cfg1 |-> UhsicPadsPowerDown, susp_ctrl |-> {"UHSIC_RESET"},
     idle_wait |-> 0, underrun_limit |-> 0, overrun_limit |-> 0,
     sync_start_dly |-> 0, misc_cfg0 |-> {}, stable_count |-> 0,
     enable_dly_count |-> 0, xtal_freq_count |-> 0,
     pts |-> 0, wake |-> {"USB_PORTSC1_WKCN"},
     txfill |-> [thres |-> 2, others |-> TRUE], rtunen |-> 0]

HsicIdle ==
    [pc |-> "idle", spin |-> 0, freq |-> 1, runs |-> 0, retries |-> 0,
     events |-> << >>, active |-> FALSE, pspd |-> 0, ret |-> "none",
     before |-> UhsicReset, cycles |-> 0, last |-> "none"]

HsicInit ==
    /\ uhsic = UhsicReset
    /\ board = [hsic_en |-> 0, active_state |-> 1, slave_wakeup |-> 0,
                ahb_prefetch |-> FALSE]
    /\ hsic_on = HsicIdle

\* the register writes of one pass of uhsic_phy_power_on, from the retry
\* label to the clock-valid wait
UhsicProgrammed(r, freq) ==
    [r EXCEPT
       !.pads_cfg1 = (@ \ UhsicPadsPowerDown) \cup {"UHSIC_RX_SEL"},
       !.susp_ctrl = (@ \cup {"UHSIC_PHY_ENABLE"}) \ {"UHSIC_RESET"},
       !.idle_wait = BitOr(@, uhsic_default.idle_wait_delay),
       !.underrun_limit = BitOr(@, uhsic_default.elastic_underrun_limit),
       !.overrun_limit = BitOr(@, uhsic_default.elastic_overrun_limit),
       !.sync_start_dly = BitOr(@, uhsic_default.sync_start_delay),
       !.misc_cfg0 = @ \cup {"UHSIC_SUSPEND_EXIT_ON_EDGE"},
       !.stable_count = BitOr(@, freq.stable_count),
       !.enable_dly_count = BitOr(@, freq.enable_delay),
       !.xtal_freq_count = BitOr(@, freq.xtal_freq_count),
       !.pts = 0,
       !.wake = {},
       !.txfill = IF @.thres # 16 THEN [thres |-> 16, others |-> FALSE] ELSE @,
       !.rtunen = 0]

\* the register writes of uhsic_phy_power_off
UhsicPoweredOff(r) ==
    [r EXCEPT
       !.pads_cfg1 = (@ \ {"UHSIC_RPU_STROBE"}) \cup {"UHSIC_RPD_STROBE"},
       !.susp_ctrl = (@ \cup {"UHSIC_RESET"}) \ {"UHSIC_PHY_ENABLE"}]

\* uhsic_phy_power_off: the registers, and the active-state GPIO when the
\* modem is out of reset
uhsic_phy_power_off(cp_rst) ==
    /\ uhsic' = UhsicPoweredOff(uhsic)
    /\ board' = [board EXCEPT !.active_state = IF cp_rst THEN 0 ELSE @]

\* tegra_usb_phy_power_on on the HSIC instance: GPIO_HSIC_EN -> 1, then
\* uhsic_phy_power_on up to the retry label.  The first call meets one of
\* the boot register states.
HsicPowerOn ==
    /\ hsic_on.pc \in {"idle", "off"}
    /\ hsic_on.cycles < MaxCycles
    /\ \E f \in 1..Len(tegra_uhsic_freq_table) :
       \E boot \in (IF hsic_on.cycles = 0 THEN UhsicBootStates ELSE {uhsic}) :
          /\ uhsic' = boot
          /\ hsic_on' = [HsicIdle EXCEPT !.pc = "retry", !.spin = HSIC_SPIN,
                                         !.freq = f, !.before = boot,
                                         !.cycles = hsic_on.cycles + 1,
                                         !.last = "power_on"]
    /\ board' = [board EXCEPT !.hsic_en = 1]
    /\ UNCHANGED hsicOthers

\* retry: ... the registers are programmed, the AHB prefetch word is set
\* and the clock-valid wait is made (its timeout is only logged)
HsicProgram ==
    /\ hsic_on.pc = "retry"
    /\ uhsic' = UhsicProgrammed(uhsic, tegra_uhsic_freq_table[hsic_on.freq])
    /\ board' = [board EXCEPT !.ahb_prefetch = TRUE]
    /\ hsic_on' = [hsic_on EXCEPT !.pc = "check", !.runs = @ + 1]
    /\ UNCHANGED hsicOthers

\* spin-- > 0
HsicSpinLeftInclusive(spin) == spin >= 0

HsicSpinLeft(spin) == spin > 0

\* if (gpio_get_value(GPIO_PHONE_ACTIVE) && spin-- > 0) { if the port speed
\* field is not the expected one: retry } return 0
HsicCheck ==
    /\ hsic_on.pc = "check"
    /\ \E active \in BOOLEAN, pspd \in 0..3 :
         LET h == [hsic_on EXCEPT !.active = active, !.pspd = pspd,
                                  !.spin = IF active THEN @ - 1 ELSE @,
                                  !.events = << >>]
         IN IF active /\ HsicSpinLeft(hsic_on.spin) /\ pspd # PSPD_EXPECTED
               THEN hsic_on' = [h EXCEPT !.pc = "recover_off", !.retries = @ + 1]
               ELSE hsic_on' = [h EXCEPT !.pc = "on", !.ret = "0"]
    /\ UNCHANGED <<uhsic, board, hsicOthers>>

\* uhsic_phy_power_off(phy); mdelay(10)
HsicRecoverOff ==
    /\ hsic_on.pc = "recover_off"
    /\ \E cp_rst \in BOOLEAN : uhsic_phy_power_off(cp_rst)
    /\ hsic_on' = [hsic_on EXCEPT !.pc = "recover_wkp1",
                                  !.events = Append(@, "power_off")]
    /\ UNCHANGED hsicOthers

\* gpio_set_value(GPIO_IPC_SLAVE_WAKEUP, 1); mdelay(10)
HsicRecoverWakeupHigh ==
    /\ hsic_on.pc = "recover_wkp1"
    /\ board' = [board EXCEPT !.slave_wakeup = 1]
    /\ hsic_on' = [hsic_on EXCEPT !.pc = "recover_wkp0",
                                  !.events = Append(@, "slave_wakeup_1")]
    /\ UNCHANGED <<uhsic, hsicOthers>>

\* gpio_set_value(GPIO_IPC_SLAVE_WAKEUP, 0); mdelay(10); goto retry
HsicRecoverWakeupLow ==
    /\ hsic_on.pc = "recover_wkp0"
    /\ board' = [board EXCEPT !.slave_wakeup = 0]
    /\ hsic_on' = [hsic_on EXCEPT !.pc = "retry",
                                  !.events = Append(@, "slave_wakeup_0")]
    /\ UNCHANGED <<uhsic, hsicOthers>>

\* tegra_usb_phy_power_off on the HSIC instance: uhsic_phy_power_off, then
\* GPIO_HSIC_EN -> 0
HsicPowerOff ==
    /\ hsic_on.pc = "on"
    /\ \E cp_rst \in BOOLEAN :
          /\ uhsic' = UhsicPoweredOff(uhsic)
          /\ board' = [board EXCEPT !.active_state = IF cp_rst THEN 0 ELSE @,
                                    !.hsic_en = 0]
    /\ hsic_on' = [hsic_on EXCEPT !.pc = "off", !.last = "power_off"]
    /\ UNCHANGED hsicOthers

HsicNext ==
    \/ HsicPowerOn
    \/ HsicProgram
    \/ HsicCheck
    \/ HsicRecoverOff
    \/ HsicRecoverWakeupHigh
    \/ HsicRecoverWakeupLow
    \/ HsicPowerOff

\* ------------------------------------------------------------------
\*  Claims about the HSIC phy power calls
\* ------------------------------------------------------------------
HsicRecovering == hsic_on.pc \in {"recover_off", "recover_wkp1", "recover_wkp0"}

\* C12: HSIC power-on runs its sequence at most 6 times (at most 5 retries);
\* a retry is taken only when the modem-active input read high and the port
\* speed field did not read the expected value; every pass after the first
\* directly follows a power-off and the slave-wakeup pulse 1 then 0; and the
\* call returns 0 on every path, budget exhausted included.
C12_HsicPowerOnBounded ==
    /\ hsic_on.runs <= HSIC_SPIN + 1
    /\ hsic_on.retries <= HSIC_SPIN
    /\ HsicRecovering => (hsic_on.active /\ hsic_on.pspd # PSPD_EXPECTED)
    /\ (hsic_on.pc = "retry" /\ hsic_on.runs > 0) =>
          hsic_on.events = <<"power_off", "slave_wakeup_1", "slave_wakeup_0">>
    /\ hsic_on.pc = "on" => hsic_on.ret = "0"
    /\ HsicRecovering => hsic_on.retries = hsic_on.runs

C12_Witness ==
    /\ hsic_on.pc = "on"
    /\ hsic_on.runs = HSIC_SPIN + 1
    /\ hsic_on.active
    /\ hsic_on.pspd # PSPD_EXPECTED
    /\ hsic_on.ret = "0"

\* C13: a power-on followed immediately by a power-off leaves every PHY
\* register field with the value it had before the power-on (here on the
\* HSIC transceiver).
C13_OnOffRestoresRegisters ==
    (hsic_on.pc = "off" /\ hsic_on.last = "power_off") => uhsic = hsic_on.before

\* ==================================================================
\*  ehci-tegra.c: system suspend and resume of one controller
\* ==================================================================
\* suspend / resume round trips followed
MaxSuspends == 2

\* enum tegra_usb_phy_port_speed, the encoding of the PSPD field of PORTSC
TEGRA_USB_PHY_PORT_SPEED_FULL == 0
TEGRA_USB_PHY_PORT_SPEED_LOW == 1
TEGRA_USB_PHY_PORT_SPEED_HIGH == 2

\* the interface of the controller: UTMI (instances 0, 2), ULPI link or
\* HSIC (instance 1)
RsKinds == {"UTMI", "TEGRA_USB_LINK_ULPI", "TEGRA_USB_UHSIC"}

RsNoCalls ==
    [power_up |-> 0, restore_start |-> 0, restore_end |-> 0, restart |-> 0,
     tdi_reset |-> 0, bus_idle |-> 0]

RsBoot ==
    [pc |-> "boot", kind |-> "UTMI", port_speed |-> 0, bus_is_power_down |-> 0,
     host_resumed |-> 0, device_ready_for_reset |-> FALSE,
     clk |-> [clk |-> 0, sclk_clk |-> 0, emc_clk |-> 0, clk_min |-> 0],
     port |-> [power |-> FALSE, connect |-> FALSE, pe |-> FALSE, suspend |-> FALSE,
               ptc |-> "normal"],
     calls |-> RsNoCalls, waited |-> FALSE, timed_out |-> "none",
     work_scheduled |-> FALSE, ret |-> "none", suspends |-> 0]

RsInit == rs = RsBoot

RsHsic == rs.kind = "TEGRA_USB_UHSIC"

\* tegra_ehci_probe: the full clocks enabled, the phy powered on, the
\* controller running; the port with or without a device
RsProbe ==
    /\ rs.pc = "boot"
    /\ \E k \in RsKinds, dev \in BOOLEAN :
          rs' = [rs EXCEPT !.pc = "running", !.kind = k, !.host_resumed = 1,
                           !.clk = [clk |-> 1, sclk_clk |-> 1, emc_clk |-> 1,
                                    clk_min |-> 0],
                           !.port = [power |-> TRUE, connect |-> dev, pe |-> dev,
                                     suspend |-> FALSE, ptc |-> "normal"]]
    /\ UNCHANGED resumeOthers

\* tegra_ehci_bus_suspend with require_power_down_on_bus_suspend and a hub
\* suspend request: clk_min enabled, clk and emc_clk disabled,
\* bus_is_power_down = 1
RsBusPowerDown ==
    /\ rs.pc \in {"running", "resumed"}
    /\ rs.bus_is_power_down = 0
    /\ rs' = [rs EXCEPT !.pc = "running", !.bus_is_power_down = 1,
                        !.port.suspend = rs.port.pe,
                        !.clk.clk_min = @ + 1, !.clk.clk = @ - 1,
                        !.clk.emc_clk = @ - 1]
    /\ UNCHANGED resumeOthers

\* tegra_ehci_power_down
RsPowerDown(r) ==
    IF r.bus_is_power_down # 0
       THEN [r EXCEPT !.host_resumed = 0, !.clk.clk_min = @ - 1]
       ELSE [r EXCEPT !.host_resumed = 0, !.clk.clk = @ - 1,
                      !.clk.sclk_clk = @ - 1, !.clk.emc_clk = @ - 1]

\* tegra_ehci_power_up
RsPowerUp(r) ==
    [r EXCEPT !.clk.emc_clk = @ + 1, !.clk.sclk_clk = @ + 1, !.clk.clk = @ + 1,
              !.host_resumed = 1, !.bus_is_power_down = 0,
              !.calls.power_up = @ + 1]

\* tegra_usb_suspend: port_speed taken from the PSPD field, the controller
\* halted, device_ready_for_reset cleared on HSIC, tegra_ehci_power_down
RsSuspend ==
    /\ rs.pc \in {"running", "resumed"}
    /\ rs.suspends < MaxSuspends
    /\ \E pspd \in 0..3 :
          rs' = [RsPowerDown(rs) EXCEPT
                    !.pc = "suspended", !.port_speed = pspd,
                    !.device_ready_for_reset = IF RsHsic THEN FALSE ELSE @,
                    !.calls = RsNoCalls, !.waited = FALSE, !.timed_out = "none",
                    !.work_scheduled = FALSE, !.ret = "none",
                    !.suspends = @ + 1]
    /\ UNCHANGED resumeOthers

\* tegra->port_speed > TEGRA_USB_PHY_PORT_SPEED_HIGH
RsSpeedUnknownOrHigh(speed) == speed >= TEGRA_USB_PHY_PORT_SPEED_HIGH

RsSpeedUnknown(speed) == speed > TEGRA_USB_PHY_PORT_SPEED_HIGH

\* tegra_usb_resume up to the port programming: tegra_ehci_power_up; HSIC
\* goes to restart; an unknown speed sleeps 10 ms and goes to restart; else
\* tegra_ehci_phy_restore_start, tdi_reset, PORT_POWER written
RsResume ==
    /\ rs.pc = "suspended"
    /\ LET r == RsPowerUp(rs)
       IN IF RsHsic
             THEN rs' = [r EXCEPT !.pc = "restart"]
             ELSE IF RsSpeedUnknown(rs.port_speed)
                     THEN rs' = [r EXCEPT !.pc = "restart", !.waited = TRUE]
                     ELSE rs' = [r EXCEPT !.pc = "ptc",
                                          !.calls.restore_start = @ + 1,
                                          !.calls.tdi_reset = @ + 1,
                                          !.port.power = TRUE]
    /\ UNCHANGED resumeOthers

\* if (!readl(&hw->async_next)): after LP0 the PTC field is programmed from
\* the saved speed, then set back to normal operation
RsPtc ==
    /\ rs.pc = "ptc"
    /\ \E lp0 \in BOOLEAN :
          rs' = [rs EXCEPT !.pc = "wait_connect",
                           !.port.connect = IF lp0 THEN FALSE ELSE @,
                           !.port.pe = IF lp0 THEN FALSE ELSE @,
                           !.port.suspend = IF lp0 THEN FALSE ELSE @,
                           !.port.ptc = "normal"]
    /\ UNCHANGED resumeOthers

\* handshake(PORT_CONNECT, 2000), goto restart on a timeout
RsWaitConnect ==
    /\ rs.pc = "wait_connect"
    /\ \E ok \in BOOLEAN :
          rs' = IF ok THEN [rs EXCEPT !.pc = "wait_enable", !.port.connect = TRUE]
                      ELSE [rs EXCEPT !.pc = "restart", !.timed_out = "connect"]
    /\ UNCHANGED resumeOthers

\* handshake(PORT_PE, 2000), goto restart on a timeout
RsWaitEnable ==
    /\ rs.pc = "wait_enable"
    /\ \E ok \in BOOLEAN :
          rs' = IF ok THEN [rs EXCEPT !.pc = "suspend_port", !.port.pe = TRUE]
                      ELSE [rs EXCEPT !.pc = "restart", !.timed_out = "enable"]
    /\ UNCHANGED resumeOthers

\* STS_PCD cleared; the port is read again and, if powered and enabled,
\* PORT_SUSPEND is written and handshake(PORT_SUSPEND, 1000) made, goto
\* restart on a timeout; else tegra_ehci_phy_restore_end and return 0
RsSuspendPort ==
    /\ rs.pc = "suspend_port"
    /\ \E pe \in BOOLEAN, ok \in BOOLEAN :
         LET r == [rs EXCEPT !.port.pe = pe, !.port.connect = pe,
                             !.port.suspend = IF pe THEN @ ELSE FALSE]
         IN IF r.port.power /\ pe
               THEN IF ok
                       THEN rs' = [r EXCEPT !.pc = "resumed", !.port.suspend = TRUE,
                                            !.calls.restore_end = @ + 1,
                                            !.ret = "0"]
                       ELSE rs' = [r EXCEPT !.pc = "restart",
                                            !.timed_out = "suspend"]
               ELSE rs' = [r EXCEPT !.pc = "resumed",
                                    !.calls.restore_end = @ + 1, !.ret = "0"]
    /\ UNCHANGED resumeOthers

\* tegra_ehci_restart: the controller reset and set running again, the port
\* powered
RsRestarted(r) ==
    [r EXCEPT !.calls.restart = @ + 1,
              !.port = [power |-> TRUE, connect |-> FALSE, pe |-> FALSE,
                        suspend |-> FALSE, ptc |-> "normal"]]

\* restart: tegra_ehci_restart(hcd) on a non-HSIC controller; on HSIC only
\* if the port is not powered and enabled
RsRestartWantedIfPortDown(hsic, port) == ~(port.power /\ port.pe)

RsRestartWanted(hsic, port) == IF hsic THEN ~(port.power /\ port.pe) ELSE TRUE

\* if (!hsic || port_speed <= HIGH) tegra_ehci_phy_restore_end
RsRestoreEndAtRestart(hsic, speed) ==
    ~hsic \/ speed <= TEGRA_USB_PHY_PORT_SPEED_HIGH

\* restart: ... return 0.  On HSIC: nothing more when the controller is
\* gone; else the restart if wanted, tegra_usb_phy_bus_idle, and one
\* presence poll that schedules the worker or sets device_ready_for_reset
RsRestart ==
    /\ rs.pc = "restart"
    /\ LET r1 == IF RsRestoreEndAtRestart(RsHsic, rs.port_speed)
                    THEN [rs EXCEPT !.calls.restore_end = @ + 1] ELSE rs
           r2 == IF RsRestartWanted(RsHsic, r1.port) THEN RsRestarted(r1) ELSE r1
       IN IF RsHsic
             THEN \E gone \in BOOLEAN, connected \in BOOLEAN :
                     rs' = IF gone
                              THEN [r1 EXCEPT !.pc = "resumed", !.ret = "0"]
                              ELSE [r2 EXCEPT !.pc = "resumed", !.ret = "0",
                                              !.calls.bus_idle = @ + 1,
                                              !.work_scheduled = ~connected,
                                              !.device_ready_for_reset =
                                                  IF connected THEN TRUE ELSE @]
             ELSE rs' = [r2 EXCEPT !.pc = "resumed", !.ret = "0"]
    /\ UNCHANGED resumeOthers

ResumeNext ==
    \/ RsProbe
    \/ RsBusPowerDown
    \/ RsSuspend
    \/ RsResume
    \/ RsPtc
    \/ RsWaitConnect
    \/ RsWaitEnable
    \/ RsSuspendPort
    \/ RsRestart

\* ------------------------------------------------------------------
\*  Claims about system suspend and resume
\* ------------------------------------------------------------------
\* tegra_usb_resume has returned
RsResumed == rs.pc = "resumed"

RsFullClocksOn == rs.clk.clk > 0 /\ rs.clk.sclk_clk > 0 /\ rs.clk.emc_clk > 0

RsHighSpeedResumed ==
    RsResumed /\ ~RsHsic /\ rs.port_speed = TEGRA_USB_PHY_PORT_SPEED_HIGH

\* C14 as stated: on a non-HSIC controller suspended at High speed, resume
\* restores the clocks, invokes neither phyRestoreStart nor phyRestoreEnd,
\* takes the wait-then-restart path and ends with the port enabled;
\* phyRestoreStart / phyRestoreEnd are invoked only for a low or full speed.
C14_HighSpeedWaitsAndRestarts ==
    /\ RsHighSpeedResumed =>
          /\ RsFullClocksOn
          /\ rs.calls.restore_start = 0 /\ rs.calls.restore_end = 0
          /\ rs.waited /\ rs.calls.restart = 1
          /\ rs.port.pe
    /\ (RsResumed /\ (rs.calls.restore_start > 0 \/ rs.calls.restore_end > 0)) =>
          rs.port_speed \in {TEGRA_USB_PHY_PORT_SPEED_LOW, TEGRA_USB_PHY_PORT_SPEED_FULL}

\* C14 as the code has it: on a non-HSIC controller suspended at High speed,
\* resume restores the clocks, invokes phyRestoreStart once and phyRestoreEnd
\* once, does not take the wait-then-restart path, and, when no handshake
\* times out, ends without a restart, with the port enabled if it stayed
\* enabled after the enable handshake; phyRestoreStart is invoked only for a
\* low, full or high speed on a non-HSIC controller, the wait-then-restart
\* path is taken only for a speed above High, and phyRestoreEnd is invoked
\* once on every non-HSIC resume.
C14_HighSpeedRestores ==
    /\ RsHighSpeedResumed =>
          /\ RsFullClocksOn
          /\ rs.calls.restore_start = 1 /\ rs.calls.restore_end = 1
          /\ ~rs.waited
          /\ rs.timed_out = "none" =>
                (rs.calls.restart = 0 /\ (rs.port.pe <=> rs.port.suspend))
    /\ (RsResumed /\ rs.calls.restore_start > 0) =>
          (~RsHsic /\ rs.port_speed <= TEGRA_USB_PHY_PORT_SPEED_HIGH)
    /\ (RsResumed /\ rs.waited) => rs.port_speed > TEGRA_USB_PHY_PORT_SPEED_HIGH
    /\ (RsResumed /\ ~RsHsic) => rs.calls.restore_end = 1

C14_Witness ==
    /\ RsHighSpeedResumed
    /\ rs.timed_out = "none"
    /\ rs.calls.restore_start = 1
    /\ rs.port.pe

\* C15: tegra_usb_resume returns 0 on every path, and on a non-HSIC
\* controller a timed-out handshake (port connect, port enable, port
\* suspend) makes it run the full controller restart before it returns.
C15_ResumeNeverFails ==
    /\ RsResumed => rs.ret = "0"
    /\ rs.ret \in {"none", "0"}
    /\ (RsResumed /\ ~RsHsic /\ rs.timed_out # "none") => rs.calls.restart = 1

C15_Witness ==
    /\ RsResumed
    /\ ~RsHsic
    /\ rs.timed_out = "suspend"
    /\ rs.calls.restart = 1
    /\ rs.ret = "0"

\* C35: within one controller resume tegra_ehci_phy_restore_end is invoked
\* only after tegra_ehci_phy_restore_start of the same resume, and when the
\* resume has returned each restore_start has had exactly one restore_end
C35_RestoreEndPairsWithStart ==
    /\ rs.calls.restore_end <= rs.calls.restore_start
    /\ RsResumed => rs.calls.restore_end = rs.calls.restore_start

\* ==================================================================
\*  usb_phy.c: tegra_usb_phy_preresume and tegra_usb_phy_postresume
\* ==================================================================
\* USB_FIFO_TXFILL_THRES(0x10) >> 16
TXFILL_THRES == 16

\* the phys of the board: UTMI on instances 0 and 2, and instance 1 with a
\* ULPI link, a null ULPI or an HSIC interface
HookPhys ==
    {[instance |-> 0, inf_type |-> "UTMI"], [instance |-> 2, inf_type |-> "UTMI"],
     [instance |-> 1, inf_type |-> "TEGRA_USB_LINK_ULPI"],
     [instance |-> 1, inf_type |-> "TEGRA_USB_NULL_ULPI"],
     [instance |-> 1, inf_type |-> "TEGRA_USB_UHSIC"]}

\* the registers the hooks touch: UTMIP_TX_CFG0 as the disconnect-detection
\* disable bit and its other bits, USB_TXFILLTUNING as the TX fill threshold
\* and its other bits
HookRegs ==
    [hs_discon_disable : BOOLEAN, tx_cfg0_others : {0, 1},
     txfill_thres : {2, TXFILL_THRES}, txfill_others : {0, 1}]

HkIdle ==
    [pc |-> "idle", phy |-> [instance |-> 0, inf_type |-> "UTMI"],
     regs |-> [hs_discon_disable |-> FALSE, tx_cfg0_others |-> 0,
               txfill_thres |-> 2, txfill_others |-> 0],
     before |-> [hs_discon_disable |-> FALSE, tx_cfg0_others |-> 0,
                 txfill_thres |-> 2, txfill_others |-> 0],
     pair_from |-> [hs_discon_disable |-> FALSE, tx_cfg0_others |-> 0,
                    txfill_thres |-> 2, txfill_others |-> 0],
     paired |-> FALSE]

HkInit == hk = HkIdle

\* val |= UTMIP_HS_DISCON_DISABLE
utmi_phy_preresume(r) == [r EXCEPT !.hs_discon_disable = TRUE]

\* val &= ~UTMIP_HS_DISCON_DISABLE
utmi_phy_postresume(r) == [r EXCEPT !.hs_discon_disable = FALSE]

\* if the threshold field is not 0x10 the whole register becomes
\* USB_FIFO_TXFILL_THRES(0x10)
uhsic_phy_postresume(r) ==
    IF r.txfill_thres # TXFILL_THRES
       THEN [r EXCEPT !.txfill_thres = TXFILL_THRES, !.txfill_others = 0]
       ELSE r

\* if (!phy_is_ulpi(phy)) utmi_phy_preresume(phy)
tegra_usb_phy_preresume_on_all(phy, r) == utmi_phy_preresume(r)

tegra_usb_phy_preresume(phy, r) ==
    IF ~phy_is_ulpi(phy.instance) THEN utmi_phy_preresume(r) ELSE r

tegra_usb_phy_postresume(phy, r) ==
    IF phy.instance = 1 /\ phy.inf_type = "TEGRA_USB_UHSIC"
       THEN uhsic_phy_postresume(r)
       ELSE IF ~phy_is_ulpi(phy.instance) THEN utmi_phy_postresume(r) ELSE r

\* a phy and the register values the hooks meet
HkOpen ==
    /\ hk.pc = "idle"
    /\ \E phy \in HookPhys, r \in HookRegs :
          hk' = [HkIdle EXCEPT !.pc = "open", !.phy = phy, !.regs = r, !.before = r]
    /\ UNCHANGED hookOthers

HkPreresume ==
    /\ hk.pc \in {"open", "post"}
    /\ hk' = [hk EXCEPT !.pc = "pre", !.before = hk.regs, !.paired = FALSE,
                        !.regs = tegra_usb_phy_preresume(hk.phy, hk.regs)]
    /\ UNCHANGED hookOthers

HkPostresume ==
    /\ hk.pc \in {"open", "pre"}
    /\ hk' = [hk EXCEPT !.pc = "post", !.before = hk.regs,
                        !.paired = (hk.pc = "pre"), !.pair_from = hk.before,
                        !.regs = tegra_usb_phy_postresume(hk.phy, hk.regs)]
    /\ UNCHANGED hookOthers

HookNext == HkOpen \/ HkPreresume \/ HkPostresume

\* ------------------------------------------------------------------
\*  Claims about the resume hooks
\* ------------------------------------------------------------------
HkUtmi == ~phy_is_ulpi(hk.phy.instance)

HkTxCfg0(r) == <<r.hs_discon_disable, r.tx_cfg0_others>>

\* C20: preresume sets and postresume clears the disconnect-detection
\* disable bit on a UTMI phy and leave every other bit and register alone;
\* on instance 1 preresume changes nothing, and postresume changes nothing
\* except that on the HSIC phy it rewrites USB_TXFILLTUNING so that the
\* threshold reads 0x10 when it did not; a preresume / postresume pair on a
\* UTMI phy whose bit was clear leaves UTMIP_TX_CFG0 as it was.
C20_ResumeHooksFrame ==
    /\ (hk.pc = "pre" /\ HkUtmi) =>
          hk.regs = [hk.before EXCEPT !.hs_discon_disable = TRUE]
    /\ (hk.pc = "pre" /\ ~HkUtmi) => hk.regs = hk.before
    /\ (hk.pc = "post" /\ HkUtmi) =>
          hk.regs = [hk.before EXCEPT !.hs_discon_disable = FALSE]
    /\ (hk.pc = "post" /\ ~HkUtmi /\ hk.phy.inf_type # "TEGRA_USB_UHSIC") =>
          hk.regs = hk.before
    /\ (hk.pc = "post" /\ hk.phy.inf_type = "TEGRA_USB_UHSIC") =>
          /\ HkTxCfg0(hk.regs) = HkTxCfg0(hk.before)
          /\ hk.regs.txfill_thres = TXFILL_THRES
          /\ hk.before.txfill_thres = TXFILL_THRES => hk.regs = hk.before
    /\ (hk.pc = "post" /\ hk.paired /\ HkUtmi /\ ~hk.pair_from.hs_discon_disable) =>
          HkTxCfg0(hk.regs) = HkTxCfg0(hk.pair_from)

C20_Witness ==
    /\ hk.pc = "post"
    /\ hk.paired
    /\ HkUtmi
    /\ ~hk.pair_from.hs_discon_disable
    /\ hk.pair_from.tx_cfg0_others = 1

\* ==================================================================
\*  usb_phy.c: the bus verbs of one phy (connect, reset, idle, presence)
\* ==================================================================

\* the phys tegra_usb_phy_open can hand out: UTMI on instance 0 and 2, and
\* on instance 1 the three interface types of struct tegra_ulpi_config
BusPhys ==
    {[instance |-> 0, inf_type |-> "UTMI"],
     [instance |-> 2, inf_type |-> "UTMI"],
     [instance |-> 1, inf_type |-> "TEGRA_USB_LINK_ULPI"],
     [instance |-> 1, inf_type |-> "TEGRA_USB_NULL_ULPI"],
     [instance |-> 1, inf_type |-> "TEGRA_USB_UHSIC"]}

BusFns ==
    {"tegra_usb_phy_bus_connect", "tegra_usb_phy_bus_reset",
     "tegra_usb_phy_bus_idle", "tegra_usb_phy_is_device_connected"}

\* the register fields the bus verbs write: USB_PORTSC1 PTC, USB_USBCMD RS,
\* UHSIC_MISC_CFG0 and the strobe pulls of UHSIC_PADS_CFG1
BusRegsReset ==
    [ptc |-> 0, rs |-> TRUE, short_connect |-> FALSE, force_xcvr |-> FALSE,
     rpd_strobe |-> TRUE, rpu_strobe |-> FALSE]

\* the modem GPIO outputs the bus verbs drive
BusGpioReset ==
    [GPIO_ACTIVE_STATE_HSIC |-> 0, GPIO_PDA_ACTIVE |-> 1,
     GPIO_IPC_SLAVE_WAKEUP |-> 0, GPIO_HSIC_EN |-> 1]

BusInit ==
    bus = [pc |-> "idle", fn |-> "none", caller |-> "none",
           phy |-> [instance |-> 0, inf_type |-> "UTMI"],
           ret |-> "none", regs |-> BusRegsReset, gpio |-> BusGpioReset,
           at_entry |-> [regs |-> BusRegsReset, gpio |-> BusGpioReset],
           val |-> 0, log |-> <<>>, failed |-> "none"]

\* if (phy_is_ulpi(phy) && (config->inf_type == TEGRA_USB_UHSIC))
BusOnAnyUlpi(phy) == phy_is_ulpi(phy.instance)

BusOnHsic(phy) == phy_is_ulpi(phy.instance) /\ phy.inf_type = "TEGRA_USB_UHSIC"

\* writel of one field, gpio_set_value of one pin, one utmi_wait_register
BusWrote(b, field, value, step) ==
    [b EXCEPT !.regs[field] = value, !.log = Append(@, step)]

BusGpioSet(b, pin, value) ==
    [b EXCEPT !.gpio[pin] = value, !.log = Append(@, pin)]

\* utmi_wait_register returned 0 (ok) or -1
BusWaited(b, step, ok) ==
    [b EXCEPT !.log = Append(@, step), !.failed = IF ok THEN @ ELSE step]

BusIn(fn, pc) == bus.fn = fn /\ bus.pc = pc

BusGoes(b, pc) ==
    /\ bus' = [b EXCEPT !.pc = pc]
    /\ UNCHANGED busOthers

BusReturns(b, ret) ==
    /\ bus' = [b EXCEPT !.pc = "returned", !.ret = ret]
    /\ UNCHANGED busOthers

\* a caller enters one of the verbs; the controller runs or is stopped
BusEnter(caller, phy, fn, running) ==
    LET regs == [bus.regs EXCEPT !.rs = running]
    IN  bus' = [bus EXCEPT !.pc = "entry", !.fn = fn, !.caller = caller,
                           !.phy = phy, !.ret = "none", !.regs = regs,
                           !.at_entry = [regs |-> regs, gpio |-> bus.gpio],
                           !.val = 0, !.log = <<>>, !.failed = "none"]

BusCall ==
    /\ bus.pc \in {"idle", "returned"}
    /\ \E phy \in BusPhys, fn \in BusFns, running \in BOOLEAN :
          BusEnter("direct", phy, fn, running)
    /\ UNCHANGED busOthers

\* UHSIC_DETECT_SHORT_CONNECT, UHSIC_FORCE_XCVR_MODE, then the strobe pull-up
\* in place of the pull-down: the opening writes of bus_connect and bus_idle
BusDetectSetup(b) ==
    BusWrote(BusWrote(BusWrote(BusWrote(b,
        "short_connect", TRUE, "UHSIC_DETECT_SHORT_CONNECT"),
        "force_xcvr", TRUE, "UHSIC_FORCE_XCVR_MODE"),
        "rpd_strobe", FALSE, "~UHSIC_RPD_STROBE"),
        "rpu_strobe", TRUE, "UHSIC_RPU_STROBE")

\* --- tegra_usb_phy_bus_connect
tegra_usb_phy_bus_connect ==
    LET fn == "tegra_usb_phy_bus_connect" IN
    \/ /\ BusIn(fn, "entry")
       /\ IF BusOnHsic(bus.phy)
             THEN BusGoes(BusDetectSetup(bus), "cp_rst")
             ELSE BusReturns(bus, "0")
    \/ /\ BusIn(fn, "cp_rst")
       /\ \E cp_rst \in BOOLEAN :
             IF cp_rst
                THEN BusGoes(BusGpioSet(bus, "GPIO_ACTIVE_STATE_HSIC", 1), "wait_connect")
                ELSE BusReturns(bus, "-ENOTCONN")
    \/ /\ BusIn(fn, "wait_connect")
       /\ \E ok \in BOOLEAN :
             IF ok THEN BusGoes(BusWaited(bus, "UHSIC_CONNECT_DETECT", TRUE), "wait_ls")
                   ELSE BusReturns(BusWaited(bus, "UHSIC_CONNECT_DETECT", FALSE), "-ENOTCONN")
    \/ /\ BusIn(fn, "wait_ls")
       /\ \E ok \in BOOLEAN :
             BusReturns(BusWaited(bus, "USB_PORTSC1_LS(2)", ok),
                        IF ok THEN "0" ELSE "-ENOTCONN")

\* --- tegra_usb_phy_bus_reset

\* one utmi_wait_register of the reset sequence: on to `next`, or -ENOTCONN
BusResetWaitLogsOnly(pc, step, next) ==
    /\ BusIn("tegra_usb_phy_bus_reset", pc)
    /\ \E ok \in BOOLEAN : BusGoes(BusWaited(bus, step, ok), next)

BusResetWait(pc, step, next) ==
    /\ BusIn("tegra_usb_phy_bus_reset", pc)
    /\ \E ok \in BOOLEAN :
          IF ok THEN BusGoes(BusWaited(bus, step, TRUE), next)
                ELSE BusReturns(BusWaited(bus, step, FALSE), "-ENOTCONN")

\* one writel of the reset sequence
BusResetWrite(pc, b, next) ==
    /\ BusIn("tegra_usb_phy_bus_reset", pc)
    /\ BusGoes(b, next)

\* the last wait reads USB_USBCMD itself: a timeout means the controller
\* has cleared the run bit again
BusResetRunning ==
    /\ BusIn("tegra_usb_phy_bus_reset", "running")
    /\ \E ok \in BOOLEAN :
          IF ok THEN BusReturns(BusWaited(bus, "running", TRUE), "0")
                ELSE BusReturns(BusWaited([bus EXCEPT !.regs.rs = FALSE], "running", FALSE),
                                "-ENOTCONN")

tegra_usb_phy_bus_reset ==
    LET fn == "tegra_usb_phy_bus_reset" IN
    \/ /\ BusIn(fn, "entry")
       /\ IF BusOnHsic(bus.phy)
             THEN BusGoes(BusWrote(bus, "ptc", BitOr(bus.regs.ptc, 5), "USB_PORTSC1_PTC(5)"),
                          "ptc_clear")
             ELSE BusReturns(bus, "0")
    \/ BusResetWrite("ptc_clear", BusWrote(bus, "ptc", 0, "~USB_PORTSC1_PTC"), "cp_rst")
    \/ /\ BusIn(fn, "cp_rst")
       /\ \E cp_rst \in BOOLEAN :
             IF cp_rst THEN BusGoes(bus, "se0")
                       ELSE BusReturns([bus EXCEPT !.failed = "GPIO_CP_RST"], "-ENOTCONN")
    \/ BusResetWait("se0", "SE0", "ccs")
    \/ BusResetWait("ccs", "connect status", "pspd")
    \/ BusResetWait("pspd", "high speed", "stop")
    \/ BusResetWrite("stop", BusWrote(bus, "rs", FALSE, "stop"), "hch")
    \/ BusResetWait("hch", "halted", "pull_down")
    \/ BusResetWrite("pull_down",
                     BusWrote(BusWrote(bus, "rpu_strobe", FALSE, "~UHSIC_RPU_STROBE"),
                              "rpd_strobe", TRUE, "strobe pull-down"),
                     "pull_up")
    \/ BusResetWrite("pull_up",
                     BusWrote(BusWrote(bus, "rpd_strobe", FALSE, "~UHSIC_RPD_STROBE"),
                              "rpu_strobe", TRUE, "strobe pull-up"),
                     "run")
    \/ BusResetWrite("run", BusWrote(bus, "rs", TRUE, "run"), "pull_release")
    \/ BusResetWrite("pull_release",
                     BusWrote(bus, "rpu_strobe", FALSE, "~UHSIC_RPU_STROBE"), "running")
    \/ BusResetRunning

\* --- tegra_usb_phy_bus_idle

\* for (val = 0; val < 3; val++)
BUS_IDLE_RETRIES == 3

\* the reconnection GPIO sequence after a lost connection
BusReconnect(b) ==
    BusGpioSet(BusGpioSet(BusGpioSet(BusGpioSet(BusGpioSet(BusGpioSet(b,
        "GPIO_ACTIVE_STATE_HSIC", 0), "GPIO_PDA_ACTIVE", 0), "GPIO_PDA_ACTIVE", 1),
        "GPIO_IPC_SLAVE_WAKEUP", 1), "GPIO_IPC_SLAVE_WAKEUP", 0),
        "GPIO_ACTIVE_STATE_HSIC", 1)

tegra_usb_phy_bus_idle ==
    LET fn == "tegra_usb_phy_bus_idle" IN
    \/ /\ BusIn(fn, "entry")
       /\ IF BusOnHsic(bus.phy)
             THEN BusGoes(BusDetectSetup(bus), "phone_active")
             ELSE BusReturns(bus, "0")
    \/ /\ BusIn(fn, "phone_active")
       /\ \E phone_active \in BOOLEAN :
             IF ~phone_active
                THEN BusReturns(BusGpioSet(bus, "GPIO_HSIC_EN", 0), "0")
                ELSE BusGoes(bus, "cp_rst")
    \/ /\ BusIn(fn, "cp_rst")
       /\ \E cp_rst \in BOOLEAN :
             IF cp_rst
                THEN BusGoes(BusGpioSet(bus, "GPIO_ACTIVE_STATE_HSIC", 1), "wait_connect")
                ELSE BusReturns(bus, "0")
    \/ /\ BusIn(fn, "wait_connect")
       /\ \E ok \in BOOLEAN :
             IF ok THEN BusReturns(BusWaited(bus, "UHSIC_CONNECT_DETECT", TRUE), "0")
                   ELSE BusGoes(BusReconnect(BusWaited(bus, "UHSIC_CONNECT_DETECT", FALSE)),
                                "retry")
    \/ /\ BusIn(fn, "retry")
       /\ IF bus.val < BUS_IDLE_RETRIES
             THEN \E ok \in BOOLEAN :
                     IF ok THEN BusReturns(BusWaited(bus, "UHSIC_CONNECT_DETECT", TRUE), "0")
                           ELSE BusGoes([BusWaited(bus, "UHSIC_CONNECT_DETECT", FALSE)
                                            EXCEPT !.val = @ + 1], "retry")
             ELSE BusReturns(BusGpioSet(bus, "GPIO_HSIC_EN", 0), "0")

\* --- tegra_usb_phy_is_device_connected
tegra_usb_phy_is_device_connected ==
    LET fn == "tegra_usb_phy_is_device_connected" IN
    \/ /\ BusIn(fn, "entry")
       /\ IF BusOnHsic(bus.phy)
             THEN BusGoes(bus, "wait_connect")
             ELSE BusReturns(bus, "true")
    \/ /\ BusIn(fn, "wait_connect")
       /\ \E ok \in BOOLEAN :
             IF ok THEN BusGoes(BusWaited(bus, "UHSIC_CONNECT_DETECT", TRUE), "wait_ls")
                   ELSE BusReturns(BusWaited(bus, "UHSIC_CONNECT_DETECT", FALSE), "false")
    \/ /\ BusIn(fn, "wait_ls")
       /\ \E ok \in BOOLEAN :
             BusReturns(BusWaited(bus, "USB_PORTSC1_LS(2)", ok),
                        IF ok THEN "true" ELSE "false")

BusVerbs ==
    \/ tegra_usb_phy_bus_connect
    \/ tegra_usb_phy_bus_reset
    \/ tegra_usb_phy_bus_idle
    \/ tegra_usb_phy_is_device_connected

BusNext == BusCall \/ BusVerbs

\* --- claims about the bus verbs

BusReturned(fn) == bus.pc = "returned" /\ bus.fn = fn

BusUntouched ==
    /\ bus.regs = bus.at_entry.regs
    /\ bus.gpio = bus.at_entry.gpio
    /\ bus.log = <<>>

\* C21: tegra_usb_phy_bus_connect, tegra_usb_phy_bus_reset and
\* tegra_usb_phy_bus_idle act on an HSIC phy only: on a UTMI phy, a discrete
\* ULPI phy or a null ULPI phy each returns 0 with every register field and
\* GPIO as it was on entry, and tegra_usb_phy_is_device_connected returns true
C21_BusVerbsActOnHsicOnly ==
    (bus.pc = "returned" /\ ~(bus.phy.instance = 1 /\ bus.phy.inf_type = "TEGRA_USB_UHSIC"))
        => /\ BusUntouched
           /\ bus.ret = IF bus.fn = "tegra_usb_phy_is_device_connected" THEN "true" ELSE "0"

C21_Witness ==
    /\ BusReturned("tegra_usb_phy_bus_reset")
    /\ bus.phy = [instance |-> 1, inf_type |-> "TEGRA_USB_LINK_ULPI"]
    /\ bus.ret = "0"
    /\ ~bus.at_entry.regs.rs
    /\ bus.at_entry.gpio.GPIO_HSIC_EN = 0

\* C30: whenever tegra_usb_phy_bus_reset returns on the HSIC phy, with 0 or
\* with an error, USB_USBCMD_RS is set if it was set on entry: no return
\* path leaves a running controller stopped
C30_BusResetLeavesControllerRunning ==
    (BusReturned("tegra_usb_phy_bus_reset") /\ bus.at_entry.regs.rs) => bus.regs.rs

\* --- the HSIC port reset request, with tegra_usb_phy_bus_reset run in full

\* if (tegra->device_ready_for_reset) retval = tegra_usb_phy_bus_reset(tegra->phy):
\* the call is entered under ehci->lock
HcBusResetCall(t) ==
    /\ hc[t].pc = "reset_test"
    /\ IF ResetGuard(tegra.device_ready_for_reset)
          THEN /\ hc' = [hc EXCEPT ![t].pc = "in_bus_reset"]
               /\ \E running \in BOOLEAN :
                     BusEnter(t, tegra_phy, "tegra_usb_phy_bus_reset", running)
          ELSE /\ hc' = [hc EXCEPT ![t].pc = "done"]
               /\ UNCHANGED bus
    /\ UNCHANGED <<tegra_phy, ehci_lock, portsc, hs_discon_disable, tegra, shutdown,
                   pm_pc, rh_state, work_pending, work_count, hist,
                   padVars, openVars, probeVars, waitVars, hsicVars, resumeVars,
                   hookVars, powerVars, onVars, keysVars, dmaVars>>

\* tegra_usb_phy_bus_reset has returned: its value is retval
HcBusResetReturn(t) ==
    /\ hc[t].pc = "in_bus_reset"
    /\ bus.pc = "returned"
    /\ hc' = [hc EXCEPT ![t].pc = "reset_clear", ![t].retval = bus.ret,
                        ![t].did_reset = TRUE]
    /\ UNCHANGED <<tegra_phy, ehci_lock, portsc, hs_discon_disable, tegra, shutdown,
                   pm_pc, rh_state, work_pending, work_count, hist, hubOthers>>

\* tegra_ehci_hub_control under the power and reset requests, the bus reset
\* stepping through tegra_usb_phy_bus_reset
ResetControl(t) ==
    \/ HcIssueLink(t)
    \/ HcHsicRefused(t)
    \/ HcHsicReset(t)
    \/ HcBusIdle(t)
    \/ HcPoll(t)
    \/ HcPollWake(t)
    \/ HcBusResetCall(t)
    \/ HcBusResetReturn(t)
    \/ HcResetClear(t)
    \/ HcHsicPower(t)
    \/ HcBusConnect(t)
    \/ HcOther(t)
    \/ HcUnlockGeneric(t)
    \/ HcDone(t)
    \/ HcGeneric(t)

\* a second thread that powers the port: SetPortFeature POWER sets
\* device_ready_for_reset under ehci->lock
PowerControl(t) ==
    \/ HcIssueOf(t, {r \in LinkRequests :
                        r.typeReq = "SetPortFeature" /\ r.wValue = "USB_PORT_FEAT_POWER"
                        /\ r.wIndex = 1})
    \/ HcHsicPower(t)
    \/ HcBusConnect(t)
    \/ HcDone(t)

ResetNext ==
    \/ ResetControl("khubd")
    \/ PowerControl("usbfs")
    \/ tegra_usb_phy_bus_reset

\* the writes and handshakes of a complete HSIC bus reset, in order
BusResetSequence ==
    <<"USB_PORTSC1_PTC(5)", "~USB_PORTSC1_PTC",
      "SE0", "connect status", "high speed", "stop", "halted",
      "~UHSIC_RPU_STROBE", "strobe pull-down", "~UHSIC_RPD_STROBE", "strobe pull-up",
      "run", "~UHSIC_RPU_STROBE", "running">>

BusResetHandshakes == {"SE0", "connect status", "high speed", "halted", "running"}

MaxPowerCalls == 3

PwNoCall == [fn |-> "none", arg |-> "none", ret |-> "none", log |-> <<>>]

\* the flags, the clock enable counts and the phy power a handler can change
PwHw(p) ==
    [host_resumed |-> p.host_resumed, bus_is_power_down |-> p.bus_is_power_down,
     hub_suspend_req |-> p.hub_suspend_req, shutdown |-> p.shutdown,
     ehci_handle |-> p.ehci_handle, clk |-> p.clk, phy_clk |-> p.phy_clk,
     phy_on |-> p.phy_on]

PwHwBoot ==
    [host_resumed |-> 0, bus_is_power_down |-> 0, hub_suspend_req |-> 0,
     shutdown |-> 0, ehci_handle |-> FALSE,
     clk |-> [clk |-> 0, sclk_clk |-> 0, emc_clk |-> 0, clk_min |-> 0],
     phy_clk |-> FALSE, phy_on |-> FALSE]

PwInit ==
    pw = [pc |-> "boot", phy |-> [instance |-> 0, inf_type |-> "UTMI"],
          require_power_down_on_bus_suspend |-> FALSE,
          sys |-> "on", rh |-> "running", dev_lock |-> "free", st |-> "none",
          core |-> "out",
          host_resumed |-> 0, bus_is_power_down |-> 0, hub_suspend_req |-> 0,
          shutdown |-> 0, ehci_handle |-> FALSE, shut |-> FALSE,
          clk |-> [clk |-> 0, sclk_clk |-> 0, emc_clk |-> 0, clk_min |-> 0],
          phy_clk |-> FALSE, phy_on |-> FALSE,
          last |-> PwNoCall, before |-> PwHwBoot, calls |-> 0]

\* the clock enable counts and the phy power alone
PwPower(h) == <<h.clk, h.phy_clk, h.phy_on>>

\* a handler is entered / returns
PwBegin(p, fn, arg) ==
    [p EXCEPT !.last = [fn |-> fn, arg |-> arg, ret |-> "none", log |-> <<>>],
              !.before = PwHw(p), !.calls = @ + 1]

PwEnd(p, ret) == [p EXCEPT !.last.ret = ret]

PwDid(p, what) == [p EXCEPT !.last.log = Append(@, what)]

\* tegra_ehci_power_up: emc_clk, sclk_clk and clk enabled, the phy powered
\* on, host_resumed = 1, bus_is_power_down = 0
PwPowerUp(p) ==
    [PwDid(p, "tegra_ehci_power_up") EXCEPT
        !.clk.emc_clk = @ + 1, !.clk.sclk_clk = @ + 1, !.clk.clk = @ + 1,
        !.phy_on = TRUE, !.phy_clk = TRUE,
        !.host_resumed = 1, !.bus_is_power_down = 0]

\* tegra_ehci_power_down: host_resumed = 0, the phy powered off; with the
\* bus powered down only clk_min is disabled, else clk, sclk_clk and emc_clk
\* are and hub_suspend_req is cleared
PwPowerDown(p) ==
    LET q == [PwDid(p, "tegra_ehci_power_down") EXCEPT
                 !.host_resumed = 0, !.phy_on = FALSE, !.phy_clk = FALSE]
    IN  IF p.bus_is_power_down # 0
           THEN [q EXCEPT !.clk.clk_min = @ - 1]
           ELSE [q EXCEPT !.clk.clk = @ - 1, !.clk.sclk_clk = @ - 1,
                          !.clk.emc_clk = @ - 1, !.hub_suspend_req = 0]

PwOnInstanceOne(p) == p.phy.instance = 1

PwReady == pw.pc = "ready" /\ pw.calls < MaxPowerCalls

\* tegra_ehci_probe succeeded: clocks and phy on, host_resumed = 1, the
\* policy taken from the platform data, ehci_handle stored on instance 1
PwProbe ==
    /\ pw.pc = "boot"
    /\ \E phy \in Controllers, policy \in BOOLEAN :
          pw' = [pw EXCEPT !.pc = "ready", !.phy = phy,
                           !.require_power_down_on_bus_suspend = policy,
                           !.host_resumed = 1, !.ehci_handle = (phy.instance = 1),
                           !.clk = [clk |-> 1, sclk_clk |-> 1, emc_clk |-> 1,
                                    clk_min |-> 0],
                           !.phy_clk = TRUE, !.phy_on = TRUE]
    /\ UNCHANGED powerOthers

\* tegra_ehci_hub_control, SetPortFeature SUSPEND: tegra->hub_suspend_req = 1
PwHubSuspendReq ==
    /\ PwReady
    /\ pw.rh = "running"
    /\ pw.host_resumed = 1
    /\ pw' = PwEnd([PwBegin(pw, "tegra_ehci_hub_control", "USB_PORT_FEAT_SUSPEND")
                       EXCEPT !.hub_suspend_req = 1], "0")
    /\ UNCHANGED powerOthers

\* if (tegra->require_power_down_on_bus_suspend && tegra->hub_suspend_req)
PwReducedProfileOnPolicyAlone(p) == p.require_power_down_on_bus_suspend

PwReducedProfileWanted(p) ==
    p.require_power_down_on_bus_suspend /\ p.hub_suspend_req # 0

\* tegra_ehci_bus_suspend; ehci_bus_suspend and clk_enable(clk_min) succeed
\* or fail
tegra_ehci_bus_suspend(p, generic_ok, clk_min_ok) ==
    LET b == PwBegin(p, "tegra_ehci_bus_suspend",
                     IF ~generic_ok THEN "ehci_bus_suspend fails"
                     ELSE IF ~clk_min_ok THEN "clk_enable(clk_min) fails"
                     ELSE "none")
    IN  IF PwOnInstanceOne(p) /\ p.shutdown = 1
           THEN PwEnd(b, "0")
        ELSE IF ~generic_ok
           THEN PwEnd(PwDid(b, "ehci_bus_suspend"), "-EBUSY")
        ELSE IF PwReducedProfileWanted(p)
           THEN LET c == [PwDid(PwDid(b, "ehci_bus_suspend"), "tegra_usb_set_phy_clock")
                             EXCEPT !.phy_clk = FALSE]
                IN  IF ~clk_min_ok
                       THEN PwEnd(c, "-EIO")
                       ELSE PwEnd([c EXCEPT !.clk.clk_min = @ + 1, !.clk.clk = @ - 1,
                                            !.clk.emc_clk = @ - 1,
                                            !.hub_suspend_req = 0,
                                            !.bus_is_power_down = 1], "0")
        ELSE PwEnd(PwDid(b, "ehci_bus_suspend"), "0")

PwBusSuspend ==
    /\ PwReady
    /\ pw.rh = "running"
    /\ \E generic_ok, clk_min_ok \in BOOLEAN :
          LET q == tegra_ehci_bus_suspend(pw, generic_ok, clk_min_ok)
          IN  pw' = [q EXCEPT !.rh = IF q.last.ret = "0" THEN "suspended" ELSE @]
    /\ UNCHANGED powerOthers

\* clk_enable in tegra_ehci_bus_resume: if (0 != (ret = clk_enable(c))) pr_err(...)
PwClkEnabled(count, ok) == IF ok THEN count + 1 ELSE count

\* tegra_ehci_bus_resume: the full profile back if the bus was powered down
\* (a failed clk_enable is logged only), then ehci_bus_resume
tegra_ehci_bus_resume(p, clk_ok, emc_ok) ==
    LET b == PwBegin(p, "tegra_ehci_bus_resume",
                     IF ~clk_ok THEN "clk_enable(clk) fails"
                     ELSE IF ~emc_ok THEN "clk_enable(emc_clk) fails"
                     ELSE "none")
        c == IF p.require_power_down_on_bus_suspend /\ p.bus_is_power_down # 0
                THEN [PwDid(b, "tegra_usb_set_phy_clock") EXCEPT
                         !.clk.clk = PwClkEnabled(@, clk_ok),
                         !.clk.emc_clk = PwClkEnabled(@, emc_ok),
                         !.clk.clk_min = @ - 1, !.phy_clk = TRUE,
                         !.bus_is_power_down = 0]
                ELSE b
    IN  PwEnd(PwDid(c, "ehci_bus_resume"), "0")

PwBusResume ==
    /\ PwReady
    /\ pw.rh = "suspended"
    /\ \E clk_ok, emc_ok \in BOOLEAN :
          /\ (pw.require_power_down_on_bus_suspend /\ pw.bus_is_power_down # 0)
                \/ (clk_ok /\ emc_ok)
          /\ pw' = [tegra_ehci_bus_resume(pw, clk_ok, emc_ok) EXCEPT !.rh = "running"]
    /\ UNCHANGED powerOthers

\* tegra_usb_suspend: the controller halted; nothing more on instance 1 once
\* shutdown is 1, else tegra_ehci_power_down
tegra_usb_suspend(p) ==
    LET h == PwDid(p, "ehci_halt")
    IN  IF PwOnInstanceOne(p) /\ p.shutdown = 1 THEN h ELSE PwPowerDown(h)

\* tegra_ehci_suspend
tegra_ehci_suspend(p) ==
    LET b == PwBegin(p, "tegra_ehci_suspend", "none")
    IN  IF PwOnInstanceOne(p) /\ p.shutdown = 1 THEN PwEnd(b, "0")
        ELSE IF PwOnInstanceOne(p) /\ ~p.ehci_handle THEN PwEnd(b, "0")
        ELSE PwEnd(tegra_usb_suspend(b), "0")

PwSuspend ==
    /\ PwReady
    /\ pw.sys = "on"
    /\ pw.st = "none"
    /\ pw' = [tegra_ehci_suspend(pw) EXCEPT !.sys = "suspended"]
    /\ UNCHANGED powerOthers

\* tegra_ehci_resume: tegra_usb_resume powers the controller up and
\* returns 0
tegra_ehci_resume(p) ==
    LET b == PwBegin(p, "tegra_ehci_resume", "none")
    IN  IF PwOnInstanceOne(p) /\ ~p.ehci_handle THEN PwEnd(b, "0")
        ELSE PwEnd(PwPowerUp(b), "0")

PwResume ==
    /\ PwReady
    /\ pw.sys = "suspended"
    /\ pw' = [tegra_ehci_resume(pw) EXCEPT !.sys = "on"]
    /\ UNCHANGED powerOthers

\* if (!tegra->host_resumed) tegra_ehci_power_up(hcd)
PwShutdownPowersUpAlways(p) == TRUE

PwShutdownPowersUp(p) == p.host_resumed = 0

\* tegra_ehci_shutdown
tegra_ehci_shutdown(p) ==
    LET b == [PwBegin(p, "tegra_ehci_shutdown", "none") EXCEPT
                 !.shutdown = IF PwOnInstanceOne(p) THEN 1 ELSE @]
        u == IF PwShutdownPowersUp(b) THEN PwPowerUp(b) ELSE b
    IN  PwEnd(PwPowerDown(PwDid(u, "ehci_shutdown")), "void")

\* the platform shutdown hook runs once, from any power state
PwShutdown ==
    /\ PwReady
    /\ ~pw.shut
    /\ pw.st = "none"
    /\ pw' = [tegra_ehci_shutdown(pw) EXCEPT !.shut = TRUE]
    /\ UNCHANGED powerOthers

\* --- store_ehci_power, the sysfs power toggle of the HSIC controller

\* if (unlikely(!device_trylock(dev))) return -EBUSY
PwTrylockAlways(lock) == TRUE

PwTrylock(lock) == lock = "free"

\* a write of 0 or 1 to ehci_power: the device lock is tried
PwStoreEnter ==
    /\ PwReady
    /\ PwOnInstanceOne(pw)
    /\ pw.sys = "on"
    /\ pw.st = "none"
    /\ ~pw.shut
    /\ \E power_on \in {"0", "1"} :
          LET b == PwBegin(pw, "store_ehci_power", power_on)
          IN  pw' = IF PwTrylock(pw.dev_lock)
                       THEN [b EXCEPT !.dev_lock = "sysfs", !.st = "locked"]
                       ELSE PwEnd(b, "-EBUSY")
    /\ UNCHANGED powerOthers

\* the body of store_ehci_power under the device lock, for power_on and for
\* what usb_add_hcd returns
store_ehci_power(p, power_on, add_ok) ==
    IF power_on = "0" /\ p.ehci_handle
       THEN PwEnd([PwPowerDown(PwDid(p, "usb_remove_hcd")) EXCEPT !.ehci_handle = FALSE],
                  "count")
    ELSE IF power_on = "1"
       THEN LET r == IF p.ehci_handle THEN PwDid(p, "usb_remove_hcd") ELSE p
                u == PwDid(PwPowerUp(r), "usb_add_hcd")
            IN  IF add_ok
                   THEN PwEnd([u EXCEPT !.ehci_handle = TRUE], "count")
                   ELSE PwEnd([PwPowerDown(u) EXCEPT !.ehci_handle = FALSE], "retval")
    ELSE PwEnd(p, "count")

\* the body runs and device_unlock(dev) ends the call
PwStoreBody ==
    /\ pw.pc = "ready"
    /\ pw.st = "locked"
    /\ \E add_ok \in BOOLEAN :
          pw' = [store_ehci_power(pw, pw.last.arg, add_ok) EXCEPT
                    !.dev_lock = "free", !.st = "none"]
    /\ UNCHANGED powerOthers

\* the driver core holds the device lock around probe and remove
PwCoreLock ==
    /\ pw.pc = "ready"
    /\ pw.core = "out"
    /\ pw.dev_lock = "free"
    /\ pw' = [pw EXCEPT !.dev_lock = "core", !.core = "in"]
    /\ UNCHANGED powerOthers

PwCoreUnlock ==
    /\ pw.pc = "ready"
    /\ pw.core = "in"
    /\ pw' = [pw EXCEPT !.dev_lock = "free", !.core = "out"]
    /\ UNCHANGED powerOthers

\* tegra_ehci_remove: ehci_handle cleared on instance 1, usb_remove_hcd,
\* tegra_usb_phy_power_off and tegra_usb_phy_close, then clk, sclk_clk and
\* emc_clk disabled and put
tegra_ehci_remove(p) ==
    LET b == PwBegin(p, "tegra_ehci_remove", "none")
        h == PwDid([b EXCEPT !.ehci_handle = IF PwOnInstanceOne(p) THEN FALSE ELSE @],
                   "usb_remove_hcd")
        o == [PwDid(h, "tegra_usb_phy_power_off") EXCEPT
                 !.phy_on = FALSE, !.phy_clk = FALSE]
        x == PwDid(o, "tegra_usb_phy_close")
    IN  PwEnd([x EXCEPT !.clk.clk = @ - 1, !.clk.sclk_clk = @ - 1,
                        !.clk.emc_clk = @ - 1], "0")

\* the driver core unbinds the device, holding the device lock
PwRemove ==
    /\ PwReady
    /\ pw.core = "in"
    /\ pw.sys = "on"
    /\ pw' = [tegra_ehci_remove(pw) EXCEPT !.pc = "removed"]
    /\ UNCHANGED powerOthers

PowerNext ==
    \/ PwProbe
    \/ PwHubSuspendReq
    \/ PwBusSuspend
    \/ PwBusResume
    \/ PwSuspend
    \/ PwResume
    \/ PwShutdown
    \/ PwStoreEnter
    \/ PwStoreBody
    \/ PwCoreLock
    \/ PwCoreUnlock
    \/ PwRemove

\* --- claims about the power profile

PwLast(fn) == pw.last.fn = fn /\ pw.last.ret # "none"

PwHsic == pw.phy.instance = 1 /\ pw.phy.inf_type = "TEGRA_USB_UHSIC"

\* C22: tegra_ehci_shutdown called with host_resumed = 0 powers the
\* controller up before ehci_shutdown touches its registers, called with
\* host_resumed = 1 it does not power up again, and either way it ends with
\* host_resumed = 0 and the phy powered off; after the shutdown of the HSIC
\* controller tegra_ehci_suspend and tegra_ehci_bus_suspend return 0 and
\* leave the phy and the clocks as they are
C22_ShutdownInAnyOrder ==
    /\ PwLast("tegra_ehci_shutdown")
          => /\ pw.last.log =
                   IF pw.before.host_resumed = 0
                      THEN <<"tegra_ehci_power_up", "ehci_shutdown", "tegra_ehci_power_down">>
                      ELSE <<"ehci_shutdown", "tegra_ehci_power_down">>
             /\ pw.host_resumed = 0
             /\ ~pw.phy_on
    /\ (PwHsic /\ pw.shut
           /\ (PwLast("tegra_ehci_suspend") \/ PwLast("tegra_ehci_bus_suspend")))
          => /\ pw.last.ret = "0"
             /\ pw.last.log = <<>>
             /\ PwPower(PwHw(pw)) = PwPower(pw.before)

C22_Witness ==
    /\ PwLast("tegra_ehci_suspend")
    /\ PwHsic
    /\ pw.shut
    /\ pw.sys = "suspended"
    /\ pw.before.host_resumed = 0
    /\ pw.calls = 3

\* the last call was a tegra_ehci_bus_suspend whose ehci_bus_suspend ran and
\* returned 0, with the policy set and a hub suspend request pending
PwProfileConditions ==
    /\ ~(PwOnInstanceOne(pw) /\ pw.before.shutdown = 1)
    /\ pw.last.arg # "ehci_bus_suspend fails"
    /\ pw.require_power_down_on_bus_suspend
    /\ pw.before.hub_suspend_req # 0

\* C26: tegra_ehci_bus_suspend enters the reduced power profile exactly when
\* ehci_bus_suspend succeeded, require_power_down_on_bus_suspend is set and
\* hub_suspend_req is pending: then the phy clock is off, clk_min is enabled,
\* clk and emc_clk are disabled, hub_suspend_req is 0 and bus_is_power_down
\* is 1; in every other case no clock and no flag has changed
C26_BusSuspendProfile ==
    PwLast("tegra_ehci_bus_suspend")
       => IF PwProfileConditions
             THEN /\ ~pw.phy_clk
                  /\ pw.clk = [pw.before.clk EXCEPT !.clk_min = @ + 1, !.clk = @ - 1,
                                                    !.emc_clk = @ - 1]
                  /\ pw.hub_suspend_req = 0
                  /\ pw.bus_is_power_down = 1
             ELSE PwHw(pw) = pw.before

\* C27: store_ehci_power that finds the device lock held returns -EBUSY and
\* changes nothing; a write of 0 with ehci_handle null changes nothing; after
\* a write of 1 whose usb_add_hcd succeeded ehci_handle is set, and after a
\* write of 0 or a failed usb_add_hcd it is null with host_resumed = 0 and
\* the phy off; the body runs only with the device lock held by the writer,
\* never while the driver core holds it for probe or remove;
\* with ehci_handle null tegra_ehci_suspend and tegra_ehci_resume of the
\* HSIC controller return 0 with the phy and the clocks untouched
C27_PowerToggleSerialized ==
    /\ pw.st = "locked" => (pw.dev_lock = "sysfs" /\ pw.core = "out")
    /\ PwLast("store_ehci_power")
          => /\ pw.last.ret = "-EBUSY" => PwHw(pw) = pw.before
             /\ (pw.last.arg = "0" /\ ~pw.before.ehci_handle) => PwHw(pw) = pw.before
             /\ (pw.last.arg = "1" /\ pw.last.ret = "count") => pw.ehci_handle
             /\ ((pw.last.arg = "0" /\ pw.last.ret = "count") \/ pw.last.ret = "retval")
                   => (~pw.ehci_handle /\ pw.host_resumed = 0 /\ ~pw.phy_on)
    /\ (PwHsic /\ ~pw.before.ehci_handle
           /\ (PwLast("tegra_ehci_suspend") \/ PwLast("tegra_ehci_resume")))
          => /\ pw.last.ret = "0"
             /\ pw.last.log = <<>>
             /\ PwPower(PwHw(pw)) = PwPower(pw.before)

C27_Witness ==
    /\ PwLast("tegra_ehci_suspend")
    /\ PwHsic
    /\ ~pw.ehci_handle
    /\ pw.shutdown = 0
    /\ pw.calls = 2

\* ------------------------------------------------------------------
\*  Claims about close()
\* ------------------------------------------------------------------

\* what the claim says close() gives back
CloseReleases ==
    {"pll_u enabled", "pll_u", "pad_clk", "pad_regs", "ulpi_clk", "reset_gpio",
     "vbus_irq", "phy"}

\* C23: after a successful tegra_usb_phy_open followed by
\* tegra_usb_phy_close nothing that open() acquired is still held: pll_u
\* is disabled and put, the pad clock put and the extra register window
\* unmapped, the ULPI clock put and the reset GPIO released, the VBUS
\* interrupt freed and the handle freed
C23_CloseReleasesAll ==
    close_out.called => close_out.held \cap CloseReleases = {}

\* ------------------------------------------------------------------
\*  Claims about the shared bias block
\* ------------------------------------------------------------------

\* one write of the bias bits of UTMIP_BIAS_CFG0 happened at a counter edge
BiasAtEdge(e) ==
    \/ e.op = "up" /\ e.from = 0 /\ e.to = 1
    \/ e.op = "down" /\ e.from = 1 /\ e.to = 0

\* C24: the bias block is written only when utmip_pad_count moves 0 -> 1
\* (powered up) or 1 -> 0 (powered down), and only by the holder of
\* utmip_pad_lock; whenever the lock is free the bias block is powered up
\* exactly when utmip_pad_count > 0
C24_BiasFollowsPadCount ==
    /\ \A i \in 1..Len(bias_log) : bias_log[i].locked /\ BiasAtEdge(bias_log[i])
    /\ PadLockFree => (~bias_pd <=> utmip_pad_count > 0)

\* two phys hold the pad, the lock is free and the bias block has been
\* powered up once and never down
C24_Witness ==
    /\ utmip_pad_count = 2
    /\ PadLockFree
    /\ ~bias_pd
    /\ Len(bias_log) = 1

\* ==================================================================
\*  usb_phy.c: tegra_usb_phy_power_on, one phy, step by step
\* ==================================================================

\* the phys a board can hand to tegra_usb_phy_power_on
PonPhys ==
    {[instance |-> i, mode |-> md, inf_type |-> "none"] :
        i \in {0, 2}, md \in {"HOST", "DEVICE"}}
    \cup
    {[instance |-> 1, mode |-> md, inf_type |-> t] :
        md \in {"HOST", "DEVICE"},
        t \in {"TEGRA_USB_LINK_ULPI", "TEGRA_USB_UHSIC", "TEGRA_USB_NULL_ULPI"}}

PonNoPhy == [instance |-> 0, mode |-> "HOST", inf_type |-> "none"]

PonInit ==
    pon = [pc |-> "idle", phy |-> PonNoPhy, log |-> <<>>, ret |-> "none",
           spin |-> 0, timeouts |-> 0, failed |-> "none"]

PonDid(steps) == [pon EXCEPT !.log = @ \o steps]

\* return <value>
PonReturns(p, value) == [p EXCEPT !.pc = "done", !.ret = value]

\* tegra_usb_phy_power_on: GPIO_HSIC_EN on instance 1, the LDO hook, then
\* the power-on function of the phy's interface
PonDispatch(phy) ==
    IF phy_is_ulpi(phy.instance)
       THEN CASE phy.inf_type = "TEGRA_USB_LINK_ULPI" -> "ulpi"
              [] phy.inf_type = "TEGRA_USB_UHSIC" -> "uhsic"
              [] OTHER -> "null"
       ELSE "utmi"

PonCall ==
    /\ pon.pc \in {"idle", "done"}
    /\ \E phy \in PonPhys :
          pon' = [pc |-> PonDispatch(phy), phy |-> phy,
                  log |-> IF phy.instance = 1
                             THEN <<"GPIO_HSIC_EN 1", "usb_ldo_en">>
                             ELSE <<"usb_ldo_en">>,
                  ret |-> "none", spin |-> HSIC_SPIN, timeouts |-> 0,
                  failed |-> "none"]
    /\ UNCHANGED onOthers

\* if (utmi_wait_register(base + USB_SUSP_CTRL, USB_PHY_CLK_VALID,
\* USB_PHY_CLK_VALID)) pr_err(...): the poll, and the count of its timeouts
PonClkValidWait(p, valid) ==
    [p EXCEPT !.log = Append(@, "wait USB_PHY_CLK_VALID"),
              !.timeouts = IF valid THEN @ ELSE @ + 1]

\* utmi_phy_power_on up to the call of utmi_phy_clk_enable
PonUtmiProgram ==
    /\ pon.pc = "utmi"
    /\ pon' = [PonDid(<<"UTMIP_RESET set">>
                      \o (IF pon.phy.instance = 0
                             THEN <<"USB1_NO_LEGACY_MODE">> ELSE <<>>)
                      \o <<"utmip timing">>
                      \o (IF pon.phy.mode = "DEVICE"
                             THEN <<"wake on connect off">> ELSE <<>>)
                      \o <<"utmip_pad_power_on", "xcvr power up">>
                      \o (IF pon.phy.instance = 0
                             THEN <<"FUSE_SETUP_SEL">> ELSE <<>>)
                      \o (IF pon.phy.instance = 2
                             THEN <<"UTMIP_PHY_ENABLE">> ELSE <<>>)
                      \o <<"UTMIP_RESET clear">>
                      \o (IF pon.phy.instance = 0
                             THEN <<"vbus sense", "USB_SUSP_SET clear">>
                                  \o (IF pon.phy.mode = "HOST"
                                         THEN <<"tegra_usb1_power 1">>
                                         ELSE <<>>)
                             ELSE <<>>))
                EXCEPT !.pc = "utmi_clk"]
    /\ UNCHANGED onOthers

\* utmi_phy_clk_enable
utmi_phy_clk_enable(p, valid) ==
    PonClkValidWait(
        [p EXCEPT !.log = @ \o (IF p.phy.instance = 0
                                   THEN <<"USB_SUSP_CLR pulse">> ELSE <<>>)
                            \o (IF p.phy.instance = 2
                                   THEN <<"USB_PORTSC1_PHCD clear">> ELSE <<>>)],
        valid)

PonUtmiClkEnable ==
    /\ pon.pc = "utmi_clk"
    /\ \E valid \in BOOLEAN :
          pon' = [utmi_phy_clk_enable(pon, valid) EXCEPT !.pc = "utmi_tail"]
    /\ UNCHANGED onOthers

\* utmi_phy_power_on after utmi_phy_clk_enable; return 0
PonUtmiTail ==
    /\ pon.pc = "utmi_tail"
    /\ pon' = PonReturns(
                 PonDid((IF pon.phy.instance = 2
                            THEN <<"USB_PORTSC1_PTS clear">> ELSE <<>>)
                        \o (IF pon.phy.mode = "HOST"
                               THEN <<"vbus_enable">> ELSE <<>>)),
                 "0")
    /\ UNCHANGED onOthers

\* ulpi_phy_power_on up to the first otg_io_write
PonUlpiProgram ==
    /\ pon.pc = "ulpi"
    /\ pon' = [PonDid(<<"reset_gpio pulse", "clk_enable ulpi", "UHSIC_RESET set",
                        "ulpi pinmux bypass", "ULPI_PHY_ENABLE", "ulpi trimmers">>)
                EXCEPT !.pc = "ulpi_write1"]
    /\ UNCHANGED onOthers

\* if (ret) { pr_err(...); return ret; }
PonWriteFailedNever(ret) == FALSE

PonWriteFailed(ret) == ret # "0"

\* ret = otg_io_write(phy->ulpi, val, reg); if (ret) return ret;
PonUlpiWrite(pc, step, next) ==
    /\ pon.pc = pc
    /\ \E ret \in {"0", "-EIO"} :
         LET p == [PonDid(<<step>>) EXCEPT
                      !.failed = IF ret # "0" /\ @ = "none" THEN step ELSE @]
         IN  pon' = IF PonWriteFailed(ret)
                       THEN PonReturns(p, ret)
                       ELSE [p EXCEPT !.pc = next]
    /\ UNCHANGED onOthers

PonUlpiWrite1 == PonUlpiWrite("ulpi_write1", "otg_io_write 0x40 0x08", "ulpi_write2")

PonUlpiWrite2 == PonUlpiWrite("ulpi_write2", "otg_io_write 0x80 0x0B", "ulpi_tail")

\* ulpi_phy_power_on after the two writes; return 0
PonUlpiTail ==
    /\ pon.pc = "ulpi_tail"
    /\ pon' = PonReturns(PonDid(<<"wake bits set", "USB_SUSP_CLR pulse">>), "0")
    /\ UNCHANGED onOthers

\* null_phy_power_on up to its clock-valid wait
PonNullProgram ==
    /\ pon.pc = "null"
    /\ pon' = [PonDid(<<"preinit", "UHSIC_RESET set", "ulpi pinmux bypass",
                        "ULPI_PHY_ENABLE", "null timing", "ULPIS2S_ENA",
                        "ULPI_CORE_CLK_SEL", "ULPI_CLK_OUT_ENA", "ulpi trimmers",
                        "ULPI_CLK_PADOUT_ENA", "USB_SUSP_CLR pulse">>)
                EXCEPT !.pc = "null_wait"]
    /\ UNCHANGED onOthers

\* the clock-valid wait of null_phy_power_on, postinit, return 0
PonNullWait ==
    /\ pon.pc = "null_wait"
    /\ \E valid \in BOOLEAN :
          pon' = PonReturns([PonClkValidWait(pon, valid) EXCEPT
                                !.log = Append(@, "postinit")], "0")
    /\ UNCHANGED onOthers

\* uhsic_phy_power_on before the retry label: the preinit hook
PonUhsicPreinit ==
    /\ pon.pc = "uhsic"
    /\ pon' = [PonDid(<<"preinit">>) EXCEPT !.pc = "uhsic_retry"]
    /\ UNCHANGED onOthers

\* uhsic_phy_power_on from the retry label up to its clock-valid wait
PonUhsicProgram ==
    /\ pon.pc = "uhsic_retry"
    /\ pon' = [PonDid(<<"uhsic registers">>) EXCEPT !.pc = "uhsic_wait"]
    /\ UNCHANGED onOthers

\* the clock-valid wait of uhsic_phy_power_on
PonUhsicWait ==
    /\ pon.pc = "uhsic_wait"
    /\ \E valid \in BOOLEAN :
          pon' = [PonClkValidWait(pon, valid) EXCEPT !.pc = "uhsic_check"]
    /\ UNCHANGED onOthers

\* if (gpio_get_value(GPIO_PHONE_ACTIVE) && spin-- > 0) { if the port
\* speed field is not all ones: power off, pulse the slave wakeup line,
\* goto retry } return 0
PonUhsicCheck ==
    /\ pon.pc = "uhsic_check"
    /\ \E active \in BOOLEAN, pspd \in 0..3 :
         LET p == [pon EXCEPT !.spin = IF active THEN @ - 1 ELSE @]
         IN  pon' = IF active /\ HsicSpinLeft(pon.spin) /\ pspd # PSPD_EXPECTED
                       THEN [p EXCEPT !.pc = "uhsic_retry",
                                      !.log = @ \o <<"uhsic_phy_power_off",
                                                      "slave wakeup pulse">>]
                       ELSE PonReturns(p, "0")
    /\ UNCHANGED onOthers

PonNext ==
    \/ PonCall
    \/ PonUtmiProgram
    \/ PonUtmiClkEnable
    \/ PonUtmiTail
    \/ PonUlpiProgram
    \/ PonUlpiWrite1
    \/ PonUlpiWrite2
    \/ PonUlpiTail
    \/ PonNullProgram
    \/ PonNullWait
    \/ PonUhsicPreinit
    \/ PonUhsicProgram
    \/ PonUhsicWait
    \/ PonUhsicCheck

\* ------------------------------------------------------------------
\*  Claims about tegra_usb_phy_power_on
\* ------------------------------------------------------------------

PonHas(step) == \E i \in 1..Len(pon.log) : pon.log[i] = step

\* the steps performed after the last clock-valid poll
PonAfterPoll ==
    LET polls == {i \in 1..Len(pon.log) : pon.log[i] = "wait USB_PHY_CLK_VALID"}
        last == CHOOSE i \in polls : \A j \in polls : j <= i
    IN  SubSeq(pon.log, last + 1, Len(pon.log))

\* what each power-on function does between its clock-valid poll and its
\* return 0
PonClosing(phy) ==
    CASE PonDispatch(phy) = "utmi" ->
            (IF phy.instance = 2 THEN <<"USB_PORTSC1_PTS clear">> ELSE <<>>)
            \o (IF phy.mode = "HOST" THEN <<"vbus_enable">> ELSE <<>>)
      [] PonDispatch(phy) = "null" -> <<"postinit">>
      [] OTHER -> <<>>

\* a power-on without discrete ULPI ran to its end and returned 0
PonRanToEnd ==
    /\ pon.ret = "0"
    /\ PonHas("wait USB_PHY_CLK_VALID")
    /\ PonAfterPoll = PonClosing(pon.phy)

PonUlpiWrites == {"otg_io_write 0x40 0x08", "otg_io_write 0x80 0x0B"}

PonUlpiAfterWrites == {"wake bits set", "USB_SUSP_CLR pulse"}

\* C25 (as stated): a clock-valid timeout is never fatal, UTMI, null-ULPI
\* and HSIC power-on run to their end and return 0; power-on fails only on
\* a discrete ULPI phy when a ULPI register write fails, and then the
\* second write, the wake-bit arming and the suspend-clear pulse are not
\* performed
C25_PowerOnFailsOnlyBeforeSecondWrite ==
    pon.pc = "done" =>
        IF PonDispatch(pon.phy) = "ulpi"
           THEN /\ pon.ret # "0" <=> pon.failed \in PonUlpiWrites
                /\ pon.ret # "0" =>
                      /\ ~PonHas("otg_io_write 0x80 0x0B")
                      /\ \A s \in PonUlpiAfterWrites : ~PonHas(s)
           ELSE PonRanToEnd

\* C25 (amended): as above, but on a failed ULPI register write it is the
\* steps after the failed write that are not performed: a failed first
\* write skips the second write, and a failed first or second write skips
\* the wake-bit arming and the suspend-clear pulse
C25_PowerOnFailsOnUlpiWriteOnly ==
    pon.pc = "done" =>
        IF PonDispatch(pon.phy) = "ulpi"
           THEN /\ pon.ret # "0" <=> pon.failed \in PonUlpiWrites
                /\ pon.ret # "0" =>
                      /\ pon.log[Len(pon.log)] = pon.failed
                      /\ pon.failed = "otg_io_write 0x40 0x08"
                            => ~PonHas("otg_io_write 0x80 0x0B")
                      /\ \A s \in PonUlpiAfterWrites : ~PonHas(s)
                /\ pon.ret = "0" => \A s \in PonUlpiWrites \cup PonUlpiAfterWrites : PonHas(s)
           ELSE PonRanToEnd

\* an HSIC power-on that never saw the clock-valid bit in two passes and
\* returned 0
C25_Witness ==
    /\ pon.pc = "done"
    /\ PonDispatch(pon.phy) = "uhsic"
    /\ pon.timeouts = 2
    /\ pon.spin = HSIC_SPIN - 2
    /\ pon.ret = "0"

\* ==================================================================
\*  gpio_keys.c: the disabled_keys / disabled_switches attributes
\* ==================================================================

\* pdata->buttons of the modelled device: keys and switches, some of which
\* the platform lets user space disable; a key and a switch share a code
gpio_keys_buttons ==
    << [type |-> "EV_KEY", code |-> 1, can_disable |-> TRUE],
       [type |-> "EV_KEY", code |-> 2, can_disable |-> TRUE],
       [type |-> "EV_KEY", code |-> 3, can_disable |-> FALSE],
       [type |-> "EV_SW", code |-> 1, can_disable |-> TRUE],
       [type |-> "EV_SW", code |-> 2, can_disable |-> FALSE] >>

n_buttons == Len(gpio_keys_buttons)

GkButtons == 1..n_buttons

\* the bitmaps user space writes: sets of event codes, one of them a code
\* no button has
GkBitmaps == SUBSET {1, 2, 3}

\* the processes writing the attributes
GkWriters == {"w1", "w2"}

GkIdle ==
    [pc |-> "idle", type |-> "EV_KEY", bits |-> {}, fail |-> "none", i |-> 1,
     error |-> "0", touched |-> {}, ret |-> "none"]

\* after gpio_keys_probe: every bdata->disabled false (kzalloc), every
\* interrupt requested and enabled, disable_lock free
GkInit ==
    gk = [disabled |-> [b \in GkButtons |-> FALSE],
          irq_depth |-> [b \in GkButtons |-> 0],
          disable_lock |-> "free",
          w |-> [t \in GkWriters |-> GkIdle]]

GkAt(t, pc) == gk.w[t].pc = pc

\* test_bit(bdata->button->code, bits)
test_bit(code, bits) == code \in bits

\* the validation test: the bitmap names a button that cannot be disabled
GkRefusesNever(b, bits) == FALSE

GkRefuses(b, bits) ==
    test_bit(gpio_keys_buttons[b].code, bits) /\ ~gpio_keys_buttons[b].can_disable

\* the buttons the loops do not skip: bdata->button->type == type
GkOfType(type) == {b \in GkButtons : gpio_keys_buttons[b].type = type}

\* gpio_keys_store_disabled_keys / _switches -> gpio_keys_attr_store_helper:
\* kcalloc, bitmap_parselist and the validation loop, which reads nothing
\* that changes
GkWrite(t) ==
    /\ GkAt(t, "idle")
    /\ \E type \in {"EV_KEY", "EV_SW"}, bits \in GkBitmaps,
          fail \in {"none", "kcalloc", "bitmap_parselist"} :
         /\ fail # "none" => bits = {}
         /\ LET w == [GkIdle EXCEPT !.type = type, !.bits = bits, !.fail = fail]
            IN  gk' = [gk EXCEPT !.w[t] =
                         CASE fail = "kcalloc" ->
                                 [w EXCEPT !.pc = "return", !.error = "-ENOMEM"]
                           [] fail = "bitmap_parselist" ->
                                 [w EXCEPT !.pc = "out", !.error = "-EINVAL"]
                           [] \E b \in GkOfType(type) : GkRefuses(b, bits) ->
                                 [w EXCEPT !.pc = "out", !.error = "-EINVAL"]
                           [] OTHER -> [w EXCEPT !.pc = "lock"]]
    /\ UNCHANGED keysOthers

\* mutex_lock(&ddata->disable_lock)
GkMutexFree == gk.disable_lock = "free"

GkLock(t) ==
    /\ GkAt(t, "lock")
    /\ GkMutexFree
    /\ gk' = [gk EXCEPT !.disable_lock = t, !.w[t].pc = "loop", !.w[t].i = 1]
    /\ UNCHANGED keysOthers

\* for (i = 0; i < ddata->n_buttons; i++): buttons of the other type are
\* skipped; the others go to gpio_keys_disable_button or
\* gpio_keys_enable_button, whose tests of bdata->disabled are made here
GkLoop(t) ==
    /\ GkAt(t, "loop")
    /\ LET w == gk.w[t]
           b == w.i
       IN  gk' = [gk EXCEPT !.w[t] =
                    IF b > n_buttons
                       THEN [w EXCEPT !.pc = "unlock"]
                       ELSE IF gpio_keys_buttons[b].type # w.type
                       THEN [w EXCEPT !.i = b + 1]
                       ELSE IF test_bit(gpio_keys_buttons[b].code, w.bits)
                       THEN [w EXCEPT !.touched = @ \cup {b},
                                      !.pc = IF ~gk.disabled[b] THEN "disable_irq"
                                                                ELSE "loop",
                                      !.i = IF ~gk.disabled[b] THEN b ELSE b + 1]
                       ELSE [w EXCEPT !.touched = @ \cup {b},
                                      !.pc = IF gk.disabled[b] THEN "enable_irq"
                                                               ELSE "loop",
                                      !.i = IF gk.disabled[b] THEN b ELSE b + 1]]
    /\ UNCHANGED keysOthers

\* gpio_keys_disable_button: disable_irq(gpio_to_irq(bdata->button->gpio))
gpio_keys_disable_button_irq(t) ==
    /\ GkAt(t, "disable_irq")
    /\ gk' = [gk EXCEPT !.irq_depth[gk.w[t].i] = @ + 1, !.w[t].pc = "disabled"]
    /\ UNCHANGED keysOthers

\* gpio_keys_disable_button: bdata->disabled = true
gpio_keys_disable_button(t) ==
    /\ GkAt(t, "disabled")
    /\ gk' = [gk EXCEPT !.disabled[gk.w[t].i] = TRUE, !.w[t].pc = "loop",
                        !.w[t].i = @ + 1]
    /\ UNCHANGED keysOthers

\* gpio_keys_enable_button: enable_irq(gpio_to_irq(bdata->button->gpio))
gpio_keys_enable_button_irq(t) ==
    /\ GkAt(t, "enable_irq")
    /\ gk' = [gk EXCEPT !.irq_depth[gk.w[t].i] = @ - 1, !.w[t].pc = "enabled"]
    /\ UNCHANGED keysOthers

\* gpio_keys_enable_button: bdata->disabled = false
gpio_keys_enable_button(t) ==
    /\ GkAt(t, "enabled")
    /\ gk' = [gk EXCEPT !.disabled[gk.w[t].i] = FALSE, !.w[t].pc = "loop",
                        !.w[t].i = @ + 1]
    /\ UNCHANGED keysOthers

\* mutex_unlock(&ddata->disable_lock)
GkUnlock(t) ==
    /\ GkAt(t, "unlock")
    /\ gk' = [gk EXCEPT !.disable_lock = IF @ = t THEN "free" ELSE @,
                        !.w[t].pc = "out"]
    /\ UNCHANGED keysOthers

\* out: kfree(bits); return error
GkOut(t) ==
    /\ GkAt(t, "out")
    /\ gk' = [gk EXCEPT !.w[t].pc = "return"]
    /\ UNCHANGED keysOthers

\* the store function: if (error) return error; return count
GkReturn(t) ==
    /\ GkAt(t, "return")
    /\ gk' = [gk EXCEPT !.w[t] =
                 [GkIdle EXCEPT !.ret = IF gk.w[t].error # "0" THEN gk.w[t].error
                                                               ELSE "count"]]
    /\ UNCHANGED keysOthers

GkNext ==
    \E t \in GkWriters :
        \/ GkWrite(t)
        \/ GkLock(t)
        \/ GkLoop(t)
        \/ gpio_keys_disable_button_irq(t)
        \/ gpio_keys_disable_button(t)
        \/ gpio_keys_enable_button_irq(t)
        \/ gpio_keys_enable_button(t)
        \/ GkUnlock(t)
        \/ GkOut(t)
        \/ GkReturn(t)

\* ------------------------------------------------------------------
\*  Claims about the gpio_keys attributes
\* ------------------------------------------------------------------

\* the bitmap of writer t names a button of its type that cannot be disabled
GkNamesFixedButton(t) ==
    \E b \in GkOfType(gk.w[t].type) :
        gpio_keys_buttons[b].code \in gk.w[t].bits /\ ~gpio_keys_buttons[b].can_disable

\* C28: a write of bitmap B that succeeds leaves, when it releases
\* disable_lock, exactly the buttons of its type whose code is in B
\* disabled; a write whose bitmap names a button of its type that cannot
\* be disabled fails with -EINVAL without having touched any button; and
\* whenever disable_lock is free each button's interrupt is disabled
\* (depth 1, never more) exactly when its disabled flag is set
C28_DisabledBitmapWrite ==
    /\ \A t \in GkWriters :
         /\ GkAt(t, "unlock") =>
               /\ gk.w[t].error = "0"
               /\ \A b \in GkOfType(gk.w[t].type) :
                     gk.disabled[b] <=> gpio_keys_buttons[b].code \in gk.w[t].bits
         /\ (~GkAt(t, "idle") /\ gk.w[t].fail = "none" /\ GkNamesFixedButton(t)) =>
               /\ gk.w[t].error = "-EINVAL"
               /\ gk.w[t].touched = {}
               /\ gk.disable_lock # t
         /\ (GkAt(t, "return") /\ gk.w[t].error = "0") =>
               gk.w[t].touched = GkOfType(gk.w[t].type)
    /\ \A b \in GkButtons : gk.irq_depth[b] \in {0, 1}
    /\ GkMutexFree => \A b \in GkButtons : gk.irq_depth[b] = 1 <=> gk.disabled[b]

\* a write of {1, 2} to disabled_keys is about to release the lock after a
\* write to disabled_switches disabled the switch with code 1, while the
\* other writer has been refused
C28_Witness ==
    /\ GkAt("w1", "unlock")
    /\ gk.w["w1"].type = "EV_KEY"
    /\ gk.w["w1"].bits = {1, 2}
    /\ gk.disabled = [b \in GkButtons |-> b \in {1, 2, 4}]
    /\ gk.w["w2"].error = "-EINVAL"
    /\ gk.w["w2"].fail = "none"

\* ------------------------------------------------------------------
\*  Claims about tegra_usb_resume on the HSIC controller
\* ------------------------------------------------------------------

\* the step in which tegra_usb_resume makes its presence check and returns
ResumeReturnStep == IsHsic /\ pm_pc = "resume_poll" /\ pm_pc' = "on"

\* the step in which tegra_usb_resume goes through restart: up to
\* tegra_usb_phy_bus_idle
ResumeRestartStep == IsHsic /\ pm_pc = "restart" /\ pm_pc' = "resume_poll"

\* C31: when tegra_usb_resume returns on the HSIC controller exactly one
\* of two things holds: device_ready_for_reset is true, or this resume has
\* scheduled the reconnection worker; the presence check comes after
\* restart and tegra_usb_phy_bus_idle, and the controller is restarted
\* there only if the port is not both powered and enabled
C31_ResumeReadyOrWorker ==
    [][/\ ResumeReturnStep =>
             /\ tegra'.device_ready_for_reset \/ work_pending'
             /\ (~work_pending /\ work_pending') => ~tegra'.device_ready_for_reset
       /\ (IsHsic /\ pm_pc' = "resume_poll") => pm_pc \in {"restart", "resume_poll"}
       /\ ResumeRestartStep =>
             portsc' = IF portsc.power /\ portsc.pe
                          THEN portsc ELSE tegra_ehci_restart(portsc)]_vars

\* a run of tegra_hsic_connection_work: the pending work either ends or
\* counts one more poll
WorkerRunStep ==
    work_pending /\ <<work_pending, work_count>>' # <<work_pending, work_count>>

\* C38: the reconnection worker polls the phy and sets
\* device_ready_for_reset only while the controller is powered up
\* (host_resumed = 1): a run pending when system suspend begins does not
\* touch the phy or the flag after the phy has been powered off
C38_WorkerRunsOnlyPoweredUp ==
    [][WorkerRunStep =>
          /\ tegra.host_resumed = 1
          /\ tegra'.device_ready_for_reset # tegra.device_ready_for_reset
                => tegra'.host_resumed = 1]_vars

\* the step in which caller t's port reset invokes
\* tegra_usb_phy_is_device_connected
PresencePollStep(t) ==
    hc[t].pc = "poll" /\ hc'[t].pc \in {"reset_test", "poll_sleep"}

\* C39: a port reset of the HSIC port invokes tegra_usb_phy_is_device_connected
\* and tegra_usb_phy_bus_reset only while the controller is powered up
\* (host_resumed = 1), however its presence-poll loop, which drops
\* ehci->lock to sleep, interleaves with system suspend
C39_ResetTouchesPhyOnlyPoweredUp ==
    [][\A t \in Callers :
          (PresencePollStep(t) \/ BusResetStep(t)) => tegra.host_resumed = 1]_vars

\* ------------------------------------------------------------------
\*  Claims about bus suspend followed by bus resume
\* ------------------------------------------------------------------

\* the reduced power profile tegra_ehci_bus_suspend leaves
PwReducedProfile(h) ==
    /\ h.bus_is_power_down = 1
    /\ h.clk.clk = 0 /\ h.clk.emc_clk = 0 /\ h.clk.clk_min = 1
    /\ ~h.phy_clk

\* C32: tegra_ehci_bus_resume entered in the reduced power profile returns
\* with clk and emc_clk enabled, clk_min disabled, the PHY clock switched
\* on again and bus_is_power_down = 0; entered with bus_is_power_down = 0
\* it changes no clock
C32_BusResumeRoundTrip ==
    PwLast("tegra_ehci_bus_resume") =>
        /\ (pw.require_power_down_on_bus_suspend /\ PwReducedProfile(pw.before)) =>
              /\ pw.clk.clk = 1 /\ pw.clk.emc_clk = 1 /\ pw.clk.clk_min = 0
              /\ pw.phy_clk
              /\ pw.bus_is_power_down = 0
        /\ pw.before.bus_is_power_down = 0 => PwPower(PwHw(pw)) = PwPower(pw.before)

\* the enable counts of clk, clk_min, sclk_clk and emc_clk
PwClkNames == {"clk", "clk_min", "sclk_clk", "emc_clk"}

\* C36: over probe, bus suspend, bus resume, system suspend, system resume,
\* shutdown and power toggles the enable count of each of the four clocks
\* stays within 0..1, and after a system suspend all four are disabled
C36_ClockCountsZeroOrOne ==
    /\ pw.pc # "removed" => \A n \in PwClkNames : pw.clk[n] \in 0..1
    /\ PwLast("tegra_ehci_suspend") => \A n \in PwClkNames : pw.clk[n] = 0

\* the phy power calls of the last handler, in order: tegra_ehci_power_up
\* calls tegra_usb_phy_power_on once, tegra_ehci_power_down and
\* tegra_ehci_remove call tegra_usb_phy_power_off once
PwPhyPowerCall(what) ==
    what \in {"tegra_ehci_power_up", "tegra_ehci_power_down",
              "tegra_usb_phy_power_off"}

PwPhyPowerCalls == SelectSeq(pw.last.log, PwPhyPowerCall)

PwIsPowerOn(what) == what = "tegra_ehci_power_up"

\* C37: on one phy handle power on and power off calls alternate: a power
\* on is applied only to a phy that is off and a power off only to a phy
\* that is on, from the power on of probe to the power off of remove
C37_PhyPowerCallsAlternate ==
    \A i \in 1..Len(PwPhyPowerCalls) :
        PwIsPowerOn(PwPhyPowerCalls[i]) #
            (IF i = 1 THEN pw.before.phy_on
                      ELSE PwIsPowerOn(PwPhyPowerCalls[i - 1]))

\* ------------------------------------------------------------------
\*  Claims about disconnect detection across a resume
\* ------------------------------------------------------------------

\* caller t has called tegra_usb_phy_preresume in a ClearPortFeature
\* SUSPEND request that has not yet set port_resuming
PortResumeInFlight(t) == hc[t].pc = "resume_sleep"

\* the step re-enables disconnect detection
DisconReenabled == hs_discon_disable /\ ~hs_discon_disable'

\* caller t's GetPortStatus finds port_resuming set and PORT_SUSPEND clear
\* and clears port_resuming in the step that takes it under ehci->lock
GetPortStatusEndsResume(t) ==
    /\ HcAt(t, "GetPortStatus", "none")
    /\ tegra.port_resuming # 0 /\ ~portsc.suspend
    /\ tegra'.port_resuming = 0
    /\ ehci_lock' = t

\* C33: disconnect detection is re-enabled only by a GetPortStatus that
\* finds port_resuming set and the suspend bit clear and clears
\* port_resuming in the same locked step; and while detection is disabled
\* and no port resume that called preresume is still under way,
\* port_resuming is 1
C33_DisabledDisconHasPendingReenable ==
    /\ [][DisconReenabled => \E t \in Callers : GetPortStatusEndsResume(t)]_vars
    /\ [](hs_discon_disable =>
            (tegra.port_resuming = 1 \/ \E t \in Callers : PortResumeInFlight(t)))

\* detection is disabled after a port resume has returned, the controller
\* has ended the resume, and the GetPortStatus that will re-enable it has
\* been issued
C33_Witness ==
    /\ hs_discon_disable
    /\ tegra.port_resuming = 1
    /\ ~portsc.suspend
    /\ \A t \in Callers : ~PortResumeInFlight(t)
    /\ \E t \in Callers : HcAt(t, "GetPortStatus", "none")

\* ------------------------------------------------------------------
\*  Claims about the error paths of open()
\* ------------------------------------------------------------------

\* open() returned an error
OpenFailed == open_in.called /\ open_out.ret # "0"

\* C34: open() has an error return that leaves an acquired resource held
\* (the witness): every error return has released the handle and, if it
\* was acquired, pll_u, and nothing else; so when the VBUS interrupt
\* request fails after utmip_pad_open the pad clock stays held, while the
\* failures before it leave nothing behind
C34_OpenErrorReleasesPllAndHandleOnly ==
    OpenFailed =>
        /\ open_out.held \cap {"phy", "pll_u", "pll_u enabled"} = {}
        /\ open_out.held =
              IF open_in.fail = "request_irq" /\ open_out.why = "RequestFailed"
                 THEN {"pad_clk"} ELSE {}

\* open() on instance 0 has returned the error of the VBUS interrupt
\* request, pll_u disabled and put, the handle freed, the pad clock held
C34_Witness ==
    /\ OpenFailed
    /\ open_in.instance = 0
    /\ open_out.log[Len(open_out.log)] = "kfree phy"
    /\ \E i \in 1..Len(open_out.log) : open_out.log[i] = "request_threaded_irq fails"
    /\ \E i \in 1..Len(open_out.log) : open_out.log[i] = "clk_put pll_u"
    /\ "pad_clk" \in open_out.held

\* ==================================================================
\*  ehci-tegra.c: the bounce buffer of one transfer (URB)
\* ==================================================================

\* #define TEGRA_USB_DMA_ALIGN 32
TEGRA_USB_DMA_ALIGN == 32

\* sizeof(struct temp_buffer): two pointers of four bytes before data[0]
SizeofTempBuffer == 8

\* the longest transfer_buffer_length tried
MaxXferLen == 2

\* the bytes a buffer can hold
DmaBytes == {0, 1}

\* addresses of the caller's transfer buffer: aligned to 32 and not
DmaBuffers == {64, 68, 95}

\* addresses kmalloc can return (aligned to 8)
DmaHeap == {1024, 1032, 1048}

DmaData(len) == [1..len -> DmaBytes]

DmaNoTemp == [kmalloc_ptr |-> 0, old_xfer_buffer |-> 0, data_at |-> 0, data |-> <<>>]

DmaNoUrb ==
    [transfer_buffer |-> 0, transfer_buffer_length |-> 0, sg |-> FALSE,
     dir_in |-> FALSE, URB_ALIGNED_TEMP_BUFFER |-> FALSE]

DmaIdle ==
    [pc |-> "idle", urb |-> DmaNoUrb, submitted |-> DmaNoUrb, buf |-> <<>>,
     buf_at_submit |-> <<>>, temp |-> DmaNoTemp, live |-> {}, ret |-> "none",
     wrote |-> <<>>, sent |-> <<>>, transferred |-> FALSE]

DmaInit == dma = DmaIdle

\* PTR_ALIGN(x, a): x rounded up to a multiple of a
PTR_ALIGN(x, a) == ((x + a - 1) \div a) * a

\* (uintptr_t)urb->transfer_buffer & (TEGRA_USB_DMA_ALIGN - 1)
DmaMisaligned(addr) == addr % TEGRA_USB_DMA_ALIGN # 0

\* the test that lets alloc_temp_buffer return 0 without a bounce buffer
DmaNeedsBounceWhateverAddress(urb) ==
    ~(urb.sg \/ urb.transfer_buffer_length = 0)

DmaNeedsBounce(urb) ==
    ~(urb.sg \/ urb.transfer_buffer_length = 0 \/ ~DmaMisaligned(urb.transfer_buffer))

\* alloc_temp_buffer: kmalloc_ptr is what kmalloc returned (0 for NULL),
\* junk what the fresh allocation holds
alloc_temp_buffer(s, kmalloc_ptr, junk) ==
    IF ~DmaNeedsBounce(s.urb) THEN [s EXCEPT !.ret = "0"]
    ELSE IF kmalloc_ptr = 0 THEN [s EXCEPT !.ret = "-ENOMEM"]
    ELSE LET data_at == PTR_ALIGN(kmalloc_ptr + SizeofTempBuffer, TEGRA_USB_DMA_ALIGN)
         IN  [s EXCEPT !.live = @ \cup {kmalloc_ptr},
                       !.temp = [kmalloc_ptr |-> kmalloc_ptr,
                                 old_xfer_buffer |-> s.urb.transfer_buffer,
                                 data_at |-> data_at,
                                 data |-> IF ~s.urb.dir_in THEN s.buf ELSE junk],
                       !.urb.transfer_buffer = data_at,
                       !.urb.URB_ALIGNED_TEMP_BUFFER = TRUE,
                       !.ret = "0"]

\* if (dir == DMA_FROM_DEVICE) memcpy(temp->old_xfer_buffer, temp->data, ...)
DmaCopiesBackNever(urb) == FALSE

DmaCopiesBack(urb) == urb.dir_in

\* free_temp_buffer
free_temp_buffer(s) ==
    IF ~s.urb.URB_ALIGNED_TEMP_BUFFER THEN s
    ELSE [s EXCEPT !.buf = IF DmaCopiesBack(s.urb) THEN s.temp.data ELSE @,
                   !.urb.transfer_buffer = s.temp.old_xfer_buffer,
                   !.live = @ \ {s.temp.kmalloc_ptr},
                   !.urb.URB_ALIGNED_TEMP_BUFFER = FALSE]

\* tegra_ehci_map_urb_for_dma; map_ok is what usb_hcd_map_urb_for_dma returns
tegra_ehci_map_urb_for_dma(s, kmalloc_ptr, junk, map_ok) ==
    LET a == alloc_temp_buffer(s, kmalloc_ptr, junk)
    IN  IF a.ret # "0" THEN a
        ELSE IF map_ok THEN a
        ELSE [free_temp_buffer(a) EXCEPT !.ret = "-EAGAIN"]

\* tegra_ehci_unmap_urb_for_dma
tegra_ehci_unmap_urb_for_dma(s) == free_temp_buffer(s)

\* a transfer is submitted: its buffer, length, direction, scatter-gather
\* use and the bytes its buffer holds
DmaSubmit ==
    /\ dma.pc = "idle"
    /\ \E addr \in DmaBuffers, len \in 0..MaxXferLen, sg \in BOOLEAN, dir_in \in BOOLEAN :
       \E bytes \in DmaData(len) :
          LET urb == [transfer_buffer |-> addr, transfer_buffer_length |-> len,
                      sg |-> sg, dir_in |-> dir_in, URB_ALIGNED_TEMP_BUFFER |-> FALSE]
          IN  dma' = [DmaIdle EXCEPT !.pc = "submitted", !.urb = urb, !.submitted = urb,
                                     !.buf = bytes, !.buf_at_submit = bytes]
    /\ UNCHANGED dmaOthers

DmaMap ==
    /\ dma.pc = "submitted"
    /\ \E kmalloc_ptr \in DmaHeap \cup {0}, map_ok \in BOOLEAN :
       \E junk \in DmaData(dma.urb.transfer_buffer_length) :
          LET m == tegra_ehci_map_urb_for_dma(dma, kmalloc_ptr, junk, map_ok)
          IN  dma' = [m EXCEPT !.pc = IF m.ret = "0" THEN "mapped" ELSE "failed"]
    /\ UNCHANGED dmaOthers

\* the controller moves the data: inbound bytes land where transfer_buffer
\* points, outbound bytes are read from there
DmaTransfer ==
    /\ dma.pc = "mapped"
    /\ ~dma.transferred
    /\ \E bytes \in DmaData(dma.urb.transfer_buffer_length) :
          LET bounced == dma.urb.URB_ALIGNED_TEMP_BUFFER
              held == IF bounced THEN dma.temp.data ELSE dma.buf
          IN  dma' = IF dma.urb.dir_in
                        THEN IF bounced
                                THEN [dma EXCEPT !.temp.data = bytes, !.wrote = bytes,
                                                 !.transferred = TRUE]
                                ELSE [dma EXCEPT !.buf = bytes, !.wrote = bytes,
                                                 !.transferred = TRUE]
                        ELSE [dma EXCEPT !.sent = held, !.transferred = TRUE]
    /\ UNCHANGED dmaOthers

DmaUnmap ==
    /\ dma.pc = "mapped"
    /\ dma' = [tegra_ehci_unmap_urb_for_dma(dma) EXCEPT !.pc = "unmapped"]
    /\ UNCHANGED dmaOthers

DmaNext ==
    \/ DmaSubmit
    \/ DmaMap
    \/ DmaTransfer
    \/ DmaUnmap

\* ------------------------------------------------------------------
\*  Claims about the bounce buffer
\* ------------------------------------------------------------------

\* the transfer has a bounce buffer in place of its own
DmaBounced == dma.urb.transfer_buffer # dma.submitted.transfer_buffer

\* a bounce buffer was allocated for the transfer
DmaHadBounce == dma.temp # DmaNoTemp

\* C40: map followed by unmap is a round trip on the transfer descriptor.
\* A bounce buffer stands in only for a transfer without scatter-gather,
\* of non-zero length, whose buffer is not aligned to 32 bytes, and then
\* holds the outbound data; after unmap, or a failed map, transfer_buffer
\* is the original pointer, URB_ALIGNED_TEMP_BUFFER is clear and the
\* allocation is freed; inbound data is in the original buffer after unmap
C40_MapUnmapRoundTrip ==
    /\ dma.pc = "mapped" =>
          /\ DmaBounced =>
                /\ ~dma.submitted.sg
                /\ dma.submitted.transfer_buffer_length # 0
                /\ dma.submitted.transfer_buffer % 32 # 0
                /\ dma.urb.transfer_buffer % 32 = 0
                /\ dma.live = {dma.temp.kmalloc_ptr}
          /\ (DmaBounced /\ ~dma.urb.dir_in /\ ~dma.transferred) =>
                dma.temp.data = dma.buf_at_submit
          /\ (~dma.urb.dir_in /\ dma.transferred) => dma.sent = dma.buf_at_submit
    /\ dma.pc \in {"unmapped", "failed"} =>
          /\ dma.urb = dma.submitted
          /\ ~dma.urb.URB_ALIGNED_TEMP_BUFFER
          /\ dma.live = {}
    /\ (dma.pc = "unmapped" /\ dma.urb.dir_in /\ dma.transferred) =>
          dma.buf = dma.wrote
    /\ (dma.pc = "unmapped" /\ ~dma.urb.dir_in) => dma.buf = dma.buf_at_submit

\* an inbound transfer to a misaligned buffer went through a bounce buffer
\* and has been unmapped
C40_Witness ==
    /\ dma.pc = "unmapped"
    /\ DmaHadBounce
    /\ dma.urb.dir_in
    /\ dma.transferred
    /\ dma.wrote # dma.buf_at_submit

\* ==================================================================
\*  Specifications
\* ==================================================================

Init ==
    /\ PadInit /\ OpenIdle /\ ProbeIdle /\ HubInit /\ WaitIdle /\ HsicInit /\ RsInit /\ HkInit
    /\ BusInit /\ PwInit /\ PonInit /\ GkInit /\ DmaInit

\* the shared pad under arbitrary power calls
SpecPad == Init /\ [][PadNext]_vars

\* the shared pad under N concurrent power-ons followed by N power-offs
SpecPadPaired == Init /\ [][PairedNext]_vars

\* open() applied to every input
OpenNext == OpenCall \/ CloseCall

SpecOpen == Init /\ [][OpenNext]_vars

\* probe applied to every input
ProbeNext == ProbeCall

SpecProbe == Init /\ [][ProbeNext]_vars

\* the link of one controller: port power and reset, system suspend and
\* resume, shutdown, the reconnection worker
SpecLink == Init /\ [][LinkNext]_vars

\* one root port under concurrent port requests
SpecPort == Init /\ [][PortNext]_vars

\* one board: the first controller, without power-down on bus suspend
InitBoard ==
    /\ Init
    /\ tegra_phy.instance = 0
    /\ ~tegra.require_power_down_on_bus_suspend

\* the polled register waits under every sequence of register values
SpecWait == InitBoard /\ [][WaitNext]_vars

\* the HSIC phy under power-on / power-off cycles
SpecHsic == InitBoard /\ [][HsicNext]_vars

\* one controller under system suspend / resume round trips
SpecResume == InitBoard /\ [][ResumeNext]_vars

\* the reconnection worker: a scheduled work item is run
SpecWorker == Init /\ [][WorkerNext]_vars /\ WF_vars(HsicConnectionWork)

\* one root port under every request, with a second thread
SpecHub == Init /\ [][HubNext]_vars

\* the resume hooks applied to every phy and register value
SpecHooks == InitBoard /\ [][HookNext]_vars

\* the bus verbs called on every kind of phy
SpecBus == InitBoard /\ [][BusNext]_vars

\* the HSIC controller without power-down on bus suspend
InitHsicBoard ==
    /\ Init
    /\ tegra_phy.instance = 1
    /\ ~tegra.require_power_down_on_bus_suspend

\* the HSIC root port under power and reset requests from two threads
SpecReset == InitHsicBoard /\ [][ResetNext]_vars

\* one controller under every order of its power handlers
SpecPower == InitBoard /\ [][PowerNext]_vars

\* one phy powered on, again and again
SpecPowerOn == InitBoard /\ [][PonNext]_vars

\* two processes writing the disabled_keys and disabled_switches attributes
SpecKeys == InitBoard /\ [][GkNext]_vars

\* one transfer mapped for DMA, moved by the controller and unmapped
SpecDma == InitBoard /\ [][DmaNext]_vars

====
